---- MODULE Spec2Model ----
(***************************************************************************)
(* Verification model of the rag-pipeline-photo backend.                   *)
(*                                                                         *)
(* Part 1: the RAG orchestrator (services/rag_service.py), one chat run of *)
(*         stream_rag_response with its external collaborators.            *)
(* Part 2: the pure function _build_prompt on drawn inputs.                *)
(* Part 3: document ingestion (routers/documents.py, docling_service.py).  *)
(*                                                                         *)
(* Encodings.  Texts are never compared character by character by the code *)
(* paths modelled here, so a text is represented by what identifies it and *)
(* by its length.  Scores are fixed-point integers in units of 1/10000     *)
(* (0.45 is 4500).  A character of a caller-supplied system prompt is 0    *)
(* (whitespace) or 1 (anything else).                                      *)
(***************************************************************************)
EXTENDS Integers, Sequences, FiniteSets, TLC

\* ------------------------------------------------------------------------
\* Bounds of the model
\* ------------------------------------------------------------------------
\* longest retrieval result drawn
MaxChunks == 4
\* longest conversation history drawn (the window is 10)
MaxHist == 11
\* most lines the generation backend sends in one stream
MaxLines == 3
\* longest caller-supplied system prompt drawn
MaxPromptLen == 2
\* longest candidate list handed to _build_prompt in PromptSpec
MaxPack == 3
\* number of documents uploaded concurrently in IngestSpec
NumDocs == 3

\* Most chunks a converted document has
MaxDocChunks == 2

\* number of tasks embedding concurrently in EmbedSpec, and the longest list
\* of texts one of them embeds
NumTasks == 2

MaxTexts == 9

\* number of ingestions calling ensure_collection after startup in StartSpec
NumCallers == 2

\* number of calls of a cached lookup in VisionSpec and ModelsSpec
MaxCalls == 3

\* longest candidate list handed to _mmr_rerank in MmrSpec
MaxCands == 3

\* number of points of the collection in SearchSpec
MaxStored == 3

\* number of chunks of the document written in UpsertSpec
MaxUpsert == 3

\* longest markdown text handed to _chunk_markdown in ChunkSpec
MaxMd == 7

\* ------------------------------------------------------------------------
\* Program constants
\* ------------------------------------------------------------------------
\* _MIN_RELEVANT_SCORE = 0.45, in units of 1/10000
_MIN_RELEVANT_SCORE == 4500
\* _VISION_CACHE_TTL = 300 (seconds)
_VISION_CACHE_TTL == 300

\* chat.py
_MODELS_CACHE_TTL == 30

\* qdrant_service.py: mmr_lambda = 0.6, in tenths
MMR_LAMBDA == 6

\* qdrant_service.py: fetch_k = max(top_k * 3, 20)
MMR_FETCH_FACTOR == 3

MMR_FETCH_MIN == 20
\* history[-10:]
HISTORY_WINDOW == 10
\* relevant_chunks[:3]
TOP_IMAGE_CHUNKS == 3
\* image_filenames[:3]
MAX_IMAGES == 3
\* context_max_chars default
DEFAULT_CONTEXT_MAX_CHARS == 12000
\* len(question) < 80
CONDENSE_MAX_LEN == 80
\* len(condensed) > 5
CONDENSED_MIN_LEN == 5

\* documents.py: str(e)[:500]
ERROR_MESSAGE_MAX == 500

\* documents.py: length of the message recorded on a timeout
TIMEOUT_MESSAGE_LEN == 93

\* embedding_service.py
EMBEDDING_BATCH_SIZE == 8

\* main.py: for attempt in range(1, 6)
STARTUP_ATTEMPTS == 5

\* ------------------------------------------------------------------------
\* Generic helpers
\* ------------------------------------------------------------------------
Min(a, b) == IF a <= b THEN a ELSE b

Max(a, b) == IF a >= b THEN a ELSE b

Range(s) == {s[i] : i \in 1..Len(s)}

\* s[:n]
Take(s, n) == SubSeq(s, 1, Min(n, Len(s)))

\* s[-n:]
LastN(s, n) == SubSeq(s, Max(1, Len(s) - n + 1), Len(s))

SeqsUpTo(S, n) == UNION {[1..k -> S] : k \in 0..n}

RECURSIVE SumSeq(_)
SumSeq(s) == IF s = <<>> THEN 0 ELSE Head(s) + SumSeq(Tail(s))

\* number of decimal digits of n >= 0, as in str(n)
RECURSIVE Digits(_)
Digits(n) == IF n < 10 THEN 1 ELSE 1 + Digits(n \div 10)

\* ------------------------------------------------------------------------
\* Texts
\* ------------------------------------------------------------------------
\* Optional[str]: None, or a string given by its characters
None == [some |-> FALSE, s |-> <<>>]

Some(chars) == [some |-> TRUE, s |-> chars]

\* str.strip(): leading and trailing whitespace (0) removed
RECURSIVE LStrip(_)
LStrip(s) == IF s # <<>> /\ Head(s) = 0 THEN LStrip(Tail(s)) ELSE s

RECURSIVE RStrip(_)
RStrip(s) == IF s # <<>> /\ s[Len(s)] = 0 THEN RStrip(SubSeq(s, 1, Len(s) - 1)) ELSE s

Strip(s) == RStrip(LStrip(s))

\* A text of a message: tag says which text it is, q the question it quotes
\* ("" when it quotes none), body the characters (system prompt), the turn
\* number (history) or the packed chunk ids (context prompt), ctx the length
\* of the context block it embeds (0 when it embeds none).
Text(tag, q, body, ctx) == [tag |-> tag, q |-> q, body |-> body, ctx |-> ctx]

\* ------------------------------------------------------------------------
\* _sse: one event of the produced stream
\* ------------------------------------------------------------------------
Event(type, sources, token, error) ==
    [type |-> type, sources |-> sources, token |-> token, error |-> error]

SourcesEvent(sources) == Event("sources", sources, 0, "")

TokenEvent(token) == Event("token", <<>>, token, "")

DoneEvent == Event("done", <<>>, 0, "")

ErrorEvent(error) == Event("error", <<>>, 0, error)

\* ------------------------------------------------------------------------
\* _build_prompt (rag_service.py)
\* ------------------------------------------------------------------------
\* A retrieved chunk: id (its rank in the backend's answer), score, length of
\* its title, page (0 when falsy), length of its content, image file names.
Chunk(id, score, tlen, page, clen, imgs) ==
    [id |-> id, score |-> score, tlen |-> tlen, page |-> page, clen |-> clen, imgs |-> imgs]

\* len(f" (Page {page})") if page else 0
PageStrLen(page) == IF page # 0 THEN 7 + Digits(page) + 1 ELSE 0

\* len(f"[Source {i+1}: {title}{page_str}]\n{content}"), i the 0-based rank
ChunkTextLen(i, c) ==
    8 + Digits(i + 1) + 2 + c.tlen + PageStrLen(c.page) + 2 + c.clen

\* len(chr(10).join(parts)) from the lengths of the parts
JoinLen(lens) == SumSeq(lens) + (IF Len(lens) > 0 THEN Len(lens) - 1 ELSE 0)

\* The loop of _build_prompt from rank i on: the 1-based positions appended
\* to parts.  The loop breaks at the first chunk whose text would take
\* total_chars over context_max_chars.
RECURSIVE PackFrom(_, _, _, _)
PackFrom(chunks, i, total_chars, context_max_chars) ==
    IF i >= Len(chunks) THEN <<>>
    ELSE LET n == ChunkTextLen(i, chunks[i + 1])
         IN  IF total_chars + n > context_max_chars THEN <<>>
             ELSE <<i + 1>> \o PackFrom(chunks, i + 1, total_chars + n, context_max_chars)

PackedParts(chunks, context_max_chars) == PackFrom(chunks, 0, 0, context_max_chars)

\* Lengths of the chunk texts at the packed positions
PartLens(chunks, parts) == [k \in 1..Len(parts) |-> ChunkTextLen(parts[k] - 1, chunks[parts[k]])]

\* _build_prompt: the context prompt quoting the question
_build_prompt(question, chunks, context_max_chars) ==
    LET parts == PackedParts(chunks, context_max_chars)
    IN  Text("context", question,
             [k \in 1..Len(parts) |-> chunks[parts[k]].id],
             JoinLen(PartLens(chunks, parts)))

\* ------------------------------------------------------------------------
\* State
\* ------------------------------------------------------------------------
VARIABLES
    \* arguments of stream_rag_response
    question, history, system_prompt, skip_rag, context_max_chars, model,
    \* the collaborators: what the vector index answers, which image files
    \* can be read, whether the model's metadata carries a vision marker,
    \* how many more lines the generation backend has to send, the lines
    \* read from it so far, whether it still sends, the wall clock
    index, loadable, model_vision, lines_left, received, backend, now,
    \* what the generation backend answers to the condensation request
    condense_reply,
    \* module-level cache of rag_service.py
    _vision_cache,
    \* locals of the running generator and its position
    pc, search_question, chunks, supports_vision, relevant_chunks, prompt, messages,
    \* what the consumer has received, the calls made, how the generator ended
    events, calls, outcome,
    \* PromptSpec: the drawn arguments of a pure function and its result
    arg, res,
    \* IngestSpec: per document, the position of its ingestion task, the
    \* conversion path its file takes and its record (status, progress)
    ipc, path, status, progress,
    \* the Docling semaphore: its value, the waiting tasks in arrival order,
    \* the waiters already handed the slot; the documents whose converter
    \* still runs in a worker thread
    sem_value, sem_waiters, sem_granted, threads,
    \* the rest of the record (chunk count, length of the error message), the
    \* points of each document in the vector index, the documents cancelled
    \* by the ingestion ceiling, and per document the progress updates,
    \* embedding calls and index writes its pipeline has made; the position
    \* of the delete request of each document
    chunk_count, error_message, points, cancelled, work, dpc,
    \* EmbedSpec: per embedding task its input texts, its position, the
    \* offset of its current batch, the result slots of the gather, the list
    \* built so far and the number of backend calls it has issued; the calls
    \* in flight at the embedding backend
    texts, epc, offset, slots, results, posted, inflight,
    \* StartSpec: module-level flag of qdrant_service.py, the size of the
    \* collection in the vector store (0 when absent), the lifespan's attempt
    \* and verified dimension, per ensure_collection caller its position,
    \* and the listing and creation calls issued to the vector store
    \* and the number of calls the vector store failed
    _collection_ready, collection, attempt, dim, cpc, list_calls, create_calls, store_faults, slept,
    \* VisionSpec: the _check_vision_support calls made so far, in order
    vision_log,
    \* ModelsSpec: module-level cache of chat.py, the models the backend has
    \* loaded, and the _get_available_models calls made so far, in order
    _models_cache, loaded, models_log

ragInputs == <<question, history, system_prompt, skip_rag, context_max_chars, model>>

ragEnv == <<index, loadable, model_vision, now, condense_reply>>

ragLocals == <<search_question, chunks, supports_vision, relevant_chunks, prompt, messages>>

ragVars == <<ragInputs, ragEnv, lines_left, received, backend, _vision_cache, pc, ragLocals,
             events, calls, outcome>>

fnVars == <<arg, res>>

semVars == <<sem_value, sem_waiters, sem_granted>>

ingestVars == <<ipc, path, status, progress, semVars, threads,
                chunk_count, error_message, points, cancelled, work, dpc>>

embedVars == <<texts, epc, offset, slots, results, posted, inflight>>

collVars == <<_collection_ready, collection, attempt, dim, cpc, list_calls, create_calls,
              store_faults, slept>>

cacheVars == <<vision_log, _models_cache, loaded, models_log>>

\* What a chat run leaves alone
idleVars == <<fnVars, ingestVars, embedVars, collVars, cacheVars>>

\* What an ingestion task leaves alone
ingestOthers == <<ragVars, fnVars, embedVars, collVars, cacheVars>>

vars == <<ragVars, fnVars, ingestVars, embedVars, collVars, cacheVars>>

\* ------------------------------------------------------------------------
\* Domains the inputs are drawn from
\* ------------------------------------------------------------------------
\* The caller's question: its length and whether it holds a referential cue
Question(len, cue) == [id |-> "question", len |-> len, cue |-> cue]

Questions == {Question(15, TRUE), Question(79, FALSE), Question(80, FALSE), Question(200, TRUE)}

\* A conversation turn of the caller's history, content given by its number
Turn(i) == [role |-> IF i % 2 = 1 THEN "user" ELSE "assistant", content |-> i]

History(n) == [i \in 1..n |-> Turn(i)]

SystemPrompts == {None} \cup {Some(s) : s \in SeqsUpTo({0, 1}, MaxPromptLen)}

Models == {"m1", "m2"}

Images == 1..4

ImageLists == {<<>>, <<1, 2>>, <<2, 3, 4>>}

ScoreValues == {9000, 5000, 4500, 4499, 3000}

\* search_chunks returns its candidates by descending score
SortedByScore(cs) == \A i \in 1..(Len(cs) - 1) : cs[i].score >= cs[i + 1].score

\* Retrieval results of at most n candidates with the given scores, image
\* lists and content lengths; a candidate's id is its rank
Retrievals(n, scores, imglists, clens) ==
    {cs \in UNION {[1..k -> [score : scores, imgs : imglists, clen : clens]] : k \in 0..n} :
        SortedByScore(cs)}

AsChunks(cs) == [i \in 1..Len(cs) |-> Chunk(i, cs[i].score, 8, i, cs[i].clen, cs[i].imgs)]

NoEntry == [present |-> FALSE, supports |-> FALSE, ts |-> 0]

Entry(supports, ts) == [present |-> TRUE, supports |-> supports, ts |-> ts]

NoCalls == [condense |-> 0, embed |-> 0, search |-> 0, vision |-> 0, image |-> 0, stream |-> 0]

NoText == Text("", "", <<>>, 0)

\* ------------------------------------------------------------------------
\* Helpers of stream_rag_response (rag_service.py)
\* ------------------------------------------------------------------------
\* round(score, 3): to the nearest 1/1000, ties to even, in units of 1/1000
Round3(score) ==
    LET q == score \div 10
        r == score % 10
    IN  IF r > 5 \/ (r = 5 /\ q % 2 = 1) THEN q + 1 ELSE q

\* One entry of the sources event
Source(c) ==
    [document_id |-> c.id, page |-> c.page, content |-> c.clen,
     score |-> Round3(c.score), image_filenames |-> c.imgs]

\* sources = [{...} for c in chunks]
Sources(cs) == [i \in 1..Len(cs) |-> Source(cs[i])]

\* Mutant of IsRelevant: a strict comparison with the threshold
IsRelevant_Strict(c) == c.score > _MIN_RELEVANT_SCORE

\* c.get("score", 0) >= _MIN_RELEVANT_SCORE
IsRelevant(c) == c.score >= _MIN_RELEVANT_SCORE

\* relevant_chunks = [c for c in chunks if ...]
RelevantChunks(cs) == SelectSeq(cs, IsRelevant)

\* context_max_chars if context_max_chars else 12000
EffectiveBudget(cmc) == IF cmc # 0 THEN cmc ELSE DEFAULT_CONTEXT_MAX_CHARS

\* Mutant of ChoosePrompt: the context is built from every retrieved chunk
ChoosePrompt_AllChunks(q, cs, rel, cmc) ==
    IF cs # <<>> THEN _build_prompt(q, cs, EffectiveBudget(cmc))
    ELSE Text("nodocs", q, <<>>, 0)

\* Step 6: the user prompt, one of three
ChoosePrompt(q, cs, rel, cmc) ==
    IF rel # <<>> THEN _build_prompt(q, rel, EffectiveBudget(cmc))
    ELSE IF cs # <<>> THEN Text("irrelevant", q, <<>>, 0)
    ELSE Text("nodocs", q, <<>>, 0)

\* system_prompt if system_prompt and system_prompt.strip() else RAG_SYSTEM_PROMPT
EffectivePrompt(sp) ==
    IF sp.some /\ sp.s # <<>> /\ Strip(sp.s) # <<>>
    THEN Text("system_prompt", "", sp.s, 0)
    ELSE Text("RAG_SYSTEM_PROMPT", "", <<>>, 0)

Message(role, text, images, multimodal) ==
    [role |-> role, text |-> text, images |-> images, multimodal |-> multimodal]

\* Mutant of HistoryMessages: the first ten turns instead of the last ten
HistoryMessages_FirstTen(h) ==
    LET w == Take(h, HISTORY_WINDOW)
    IN  [i \in 1..Len(w) |-> Message(w[i].role, Text("turn", "", <<w[i].content>>, 0), <<>>, FALSE)]

\* for msg in history[-10:]: messages.append({"role": ..., "content": ...})
HistoryMessages(h) ==
    LET w == LastN(h, HISTORY_WINDOW)
    IN  [i \in 1..Len(w) |-> Message(w[i].role, Text("turn", "", <<w[i].content>>, 0), <<>>, FALSE)]

\* Step 7: the system message, then the window of the history
MessagesPrefix(sp, h) ==
    <<Message("system", EffectivePrompt(sp), <<>>, FALSE)>> \o HistoryMessages(h)

\* The file names of the chunks, in order, each kept at its first occurrence
RECURSIVE Dedup(_, _)
Dedup(names, seen) ==
    IF names = <<>> THEN <<>>
    ELSE IF Head(names) \in seen THEN Dedup(Tail(names), seen)
    ELSE <<Head(names)>> \o Dedup(Tail(names), seen \cup {Head(names)})

RECURSIVE AllImages(_)
AllImages(cs) == IF cs = <<>> THEN <<>> ELSE Head(cs).imgs \o AllImages(Tail(cs))

\* Mutant of ImageFilenames: the images of every relevant chunk
ImageFilenames_AllChunks(rel) == Dedup(AllImages(rel), {})

\* image_filenames collected over relevant_chunks[:3]
ImageFilenames(rel) == Dedup(AllImages(Take(rel, TOP_IMAGE_CHUNKS)), {})

\* _load_image_base64 over image_filenames[:3]: the images that loaded
LoadedImages(fnames, canload) ==
    SelectSeq(Take(fnames, MAX_IMAGES), LAMBDA f : f \in canload)

\* Step 8: the user turn
UserMessage(p, vision, rel, canload) ==
    IF vision /\ rel # <<>> /\ ImageFilenames(rel) # <<>>
    THEN Message("user", p, LoadedImages(ImageFilenames(rel), canload), TRUE)
    ELSE Message("user", p, <<>>, FALSE)

\* Number of _load_image_base64 calls of step 8
ImageLoads(vision, rel) ==
    IF vision /\ rel # <<>> THEN Len(Take(ImageFilenames(rel), MAX_IMAGES)) ELSE 0

\* Mutant of NeedsCondensation: only the length of the question counts
NeedsCondensation_LengthOnly(q) == q.len < CONDENSE_MAX_LEN

\* needs_condensation of _condense_question
NeedsCondensation(q) == q.len < CONDENSE_MAX_LEN \/ q.cue

\* Mutant of Condensed: any non-empty answer is taken
Condensed_AnyReply(reply) ==
    IF reply.ok /\ reply.len > 0 THEN "condensed" ELSE "question"

\* What _condense_question returns once the backend was asked: reply.ok is
\* FALSE when the call raised, reply.len is the length of the stripped answer
Condensed(reply) ==
    IF reply.ok /\ reply.len > CONDENSED_MIN_LEN THEN "condensed" ELSE "question"

CondenseReplies == [ok : BOOLEAN, len : {0, 5, 6}]

\* The backend is not asked
NoReply == [ok |-> FALSE, len |-> 0]

\* cached and (now - cached["ts"]) < _VISION_CACHE_TTL
CacheFresh(e, t) == e.present /\ (t - e.ts) < _VISION_CACHE_TTL

\* _check_vision_support after a cache miss, by the outcome of the probe:
\* "ok" (status 200), "status" (any other status), "raise" (the call raised).
\* Gives the value returned and the entry the cache holds afterwards.
ProbeResult(e, t, out, marker) ==
    CASE out = "ok"     -> [ret |-> marker, entry |-> Entry(marker, t)]
      [] out = "status" -> [ret |-> FALSE, entry |-> Entry(FALSE, t)]
      [] OTHER          -> [ret |-> FALSE, entry |-> e]

\* ------------------------------------------------------------------------
\* stream_rag_response: one action per stretch between two suspensions
\* ------------------------------------------------------------------------
Called(what) == [calls EXCEPT ![what] = @ + 1]

\* The generator yields a last event (or none) and returns
Finish(evs) ==
    /\ events' = evs
    /\ pc' = "end"
    /\ outcome' = "returned"

\* Mutant of SkipRagStart: the fallback prompt in place of the raw question
SkipRagStart_FallbackPrompt ==
    /\ pc = "start"
    /\ skip_rag
    /\ events' = Append(events, SourcesEvent(<<>>))
    /\ prompt' = Text("nodocs", question.id, <<>>, 0)
    /\ messages' = Append(MessagesPrefix(system_prompt, history),
                          Message("user", Text("nodocs", question.id, <<>>, 0), <<>>, FALSE))
    /\ pc' = "open"
    /\ UNCHANGED <<ragInputs, ragEnv, lines_left, received, backend, _vision_cache, search_question,
                   chunks, supports_vision, relevant_chunks, calls, outcome, idleVars>>

\* skip_rag branch: the empty sources event, then the messages, with the raw
\* question as the user turn
SkipRagStart ==
    /\ pc = "start"
    /\ skip_rag
    /\ events' = Append(events, SourcesEvent(<<>>))
    /\ prompt' = Text("raw", question.id, <<>>, 0)
    /\ messages' = Append(MessagesPrefix(system_prompt, history),
                          Message("user", Text("raw", question.id, <<>>, 0), <<>>, FALSE))
    /\ pc' = "open"
    /\ UNCHANGED <<ragInputs, ragEnv, lines_left, received, backend, _vision_cache, search_question,
                   chunks, supports_vision, relevant_chunks, calls, outcome, idleVars>>

\* Step 1: condensation of the question when there is a history
CondenseStep ==
    /\ pc = "start"
    /\ ~skip_rag
    /\ \/ /\ history # <<>>
          /\ NeedsCondensation(question)
          /\ search_question' = Condensed(condense_reply)
          /\ calls' = Called("condense")
       \/ /\ ~(history # <<>> /\ NeedsCondensation(question))
          /\ search_question' = "question"
          /\ calls' = calls
    /\ pc' = "embed"
    /\ UNCHANGED <<ragInputs, ragEnv, lines_left, received, backend, _vision_cache, chunks,
                   supports_vision, relevant_chunks, prompt, messages, events, outcome,
                   idleVars>>

\* Mutant of EmbedStep: the error event is emitted and the run goes on
EmbedStep_NoReturn ==
    /\ pc = "embed"
    /\ calls' = Called("embed")
    /\ pc' = "search"
    /\ \/ UNCHANGED <<events, outcome>>
       \/ /\ events' = Append(events, ErrorEvent("embedding"))
          /\ UNCHANGED outcome
    /\ UNCHANGED <<ragInputs, ragEnv, lines_left, received, backend, _vision_cache, ragLocals, idleVars>>

\* Step 2: embedding of the search question; a failure ends the run
EmbedStep ==
    /\ pc = "embed"
    /\ calls' = Called("embed")
    /\ \/ /\ pc' = "search"
          /\ UNCHANGED <<events, outcome>>
       \/ Finish(Append(events, ErrorEvent("embedding")))
    /\ UNCHANGED <<ragInputs, ragEnv, lines_left, received, backend, _vision_cache, ragLocals, idleVars>>

\* Step 3: vector search; a failure ends the run
SearchStep ==
    /\ pc = "search"
    /\ calls' = Called("search")
    /\ \/ /\ chunks' = index
          /\ pc' = "sources"
          /\ UNCHANGED <<events, outcome>>
       \/ /\ Finish(Append(events, ErrorEvent("recherche")))
          /\ chunks' = chunks
    /\ UNCHANGED <<ragInputs, ragEnv, lines_left, received, backend, _vision_cache, search_question,
                   supports_vision, relevant_chunks, prompt, messages, idleVars>>

\* Step 4: the sources event
EmitSources ==
    /\ pc = "sources"
    /\ events' = Append(events, SourcesEvent(Sources(chunks)))
    /\ pc' = "vision"
    /\ UNCHANGED <<ragInputs, ragEnv, lines_left, received, backend, _vision_cache, ragLocals, calls,
                   outcome, idleVars>>

\* Step 5: _check_vision_support: the cached answer while it is fresh, else
\* a probe of the backend
CheckVision ==
    /\ pc = "vision"
    /\ \/ /\ CacheFresh(_vision_cache[model], now)
          /\ supports_vision' = _vision_cache[model].supports
          /\ UNCHANGED <<_vision_cache, calls>>
       \/ /\ ~CacheFresh(_vision_cache[model], now)
          /\ \E out \in {"ok", "status", "raise"} :
                LET r == ProbeResult(_vision_cache[model], now, out, model_vision)
                IN  /\ supports_vision' = r.ret
                    /\ _vision_cache' = [_vision_cache EXCEPT ![model] = r.entry]
          /\ calls' = Called("vision")
    /\ pc' = "prompt"
    /\ UNCHANGED <<ragInputs, ragEnv, lines_left, received, backend, search_question, chunks,
                   relevant_chunks, prompt, messages, events, outcome, idleVars>>

\* Mutant of Assemble: the prompt is built around the condensed question
Assemble_SearchQuestion ==
    /\ pc = "prompt"
    /\ LET rel == RelevantChunks(chunks)
           p   == ChoosePrompt(search_question, chunks, rel, context_max_chars)
       IN  /\ relevant_chunks' = rel
           /\ prompt' = p
           /\ messages' = Append(MessagesPrefix(system_prompt, history),
                                 UserMessage(p, supports_vision, rel, loadable))
           /\ calls' = [calls EXCEPT !.image = @ + ImageLoads(supports_vision, rel)]
    /\ pc' = "open"
    /\ UNCHANGED <<ragInputs, ragEnv, lines_left, received, backend, _vision_cache, search_question,
                   chunks, supports_vision, events, outcome, idleVars>>

\* Steps 6 to 8: relevant chunks, prompt, messages, images
Assemble ==
    /\ pc = "prompt"
    /\ LET rel == RelevantChunks(chunks)
           p   == ChoosePrompt(question.id, chunks, rel, context_max_chars)
       IN  /\ relevant_chunks' = rel
           /\ prompt' = p
           /\ messages' = Append(MessagesPrefix(system_prompt, history),
                                 UserMessage(p, supports_vision, rel, loadable))
           /\ calls' = [calls EXCEPT !.image = @ + ImageLoads(supports_vision, rel)]
    /\ pc' = "open"
    /\ UNCHANGED <<ragInputs, ragEnv, lines_left, received, backend, _vision_cache, search_question,
                   chunks, supports_vision, events, outcome, idleVars>>

\* Step 9, http_client.stream and raise_for_status: the stream opens, or the
\* request fails (connect timeout, transport error, error status)
OpenStream ==
    /\ pc = "open"
    /\ calls' = Called("stream")
    /\ \/ /\ pc' = "stream"
          /\ UNCHANGED <<events, outcome>>
       \/ Finish(Append(events, ErrorEvent("timeout")))
       \/ Finish(Append(events, ErrorEvent("exception")))
    /\ UNCHANGED <<ragInputs, ragEnv, lines_left, received, backend, _vision_cache, ragLocals, idleVars>>

LineKinds == {"empty", "malformed", "nondict", "notoken", "token", "done"}

\* Step 9, one iteration of async for line in response.aiter_lines()
ReadLine ==
    /\ pc = "stream"
    /\ backend = "live"
    /\ lines_left > 0
    /\ lines_left' = lines_left - 1
    /\ \E kind \in LineKinds :
        /\ received' = Append(received, [kind |-> kind, text |-> IF kind = "token" THEN lines_left ELSE 0])
        /\ CASE kind = "done"    -> Finish(Append(events, DoneEvent))
            [] kind = "token"   -> /\ events' = Append(events, TokenEvent(lines_left))
                                   /\ UNCHANGED <<pc, outcome>>
            [] kind = "nondict" -> Finish(Append(events, ErrorEvent("exception")))
            [] OTHER            -> UNCHANGED <<events, pc, outcome>>
    /\ UNCHANGED <<ragInputs, ragEnv, backend, _vision_cache, ragLocals, calls, idleVars>>

\* Step 9: the backend closes the stream; the loop ends and so does the run
StreamEnd ==
    /\ pc = "stream"
    /\ backend = "live"
    /\ Finish(events)
    /\ UNCHANGED <<ragInputs, ragEnv, lines_left, received, backend, _vision_cache, ragLocals, calls,
                   idleVars>>

\* Step 9: the connection breaks while the lines are read
StreamError ==
    /\ pc = "stream"
    /\ backend = "live"
    /\ Finish(Append(events, ErrorEvent("exception")))
    /\ UNCHANGED <<ragInputs, ragEnv, lines_left, received, backend, _vision_cache, ragLocals, calls,
                   idleVars>>

\* The generation backend stops sending without closing the stream.  The
\* stream was opened with read=None: no timer runs on the reading side.
BackendStall ==
    /\ pc = "stream"
    /\ backend = "live"
    /\ backend' = "stalled"
    /\ UNCHANGED <<ragInputs, ragEnv, lines_left, received, _vision_cache, pc, ragLocals, events,
                   calls, outcome, idleVars>>

RagNext ==
    \/ SkipRagStart
    \/ CondenseStep
    \/ EmbedStep
    \/ SearchStep
    \/ EmitSources
    \/ CheckVision
    \/ Assemble
    \/ OpenStream
    \/ ReadLine
    \/ StreamEnd
    \/ StreamError
    \/ BackendStall

\* ------------------------------------------------------------------------
\* Initial states of a chat run
\* ------------------------------------------------------------------------
\* The pure-function scratch variables are idle during a chat run
FnIdle == arg = <<>> /\ res = <<>>

\* No document is being ingested
IngestIdle ==
    /\ ipc = <<>> /\ path = <<>> /\ status = <<>> /\ progress = <<>>
    /\ sem_value = 1 /\ sem_waiters = <<>> /\ sem_granted = {} /\ threads = {}
    /\ chunk_count = <<>> /\ error_message = <<>> /\ points = <<>>
    /\ cancelled = {} /\ work = <<>> /\ dpc = <<>>

\* No embed_many call is running
EmbedIdle ==
    /\ texts = <<>> /\ epc = <<>> /\ offset = <<>> /\ slots = <<>>
    /\ results = <<>> /\ posted = <<>> /\ inflight = {}

\* The vector store is not being set up
CollIdle ==
    /\ _collection_ready = FALSE /\ collection = 0 /\ attempt = 0 /\ dim = 0
    /\ cpc = <<>> /\ list_calls = 0 /\ create_calls = 0 /\ store_faults = 0 /\ slept = <<>>

\* No cache of the chat router is in use
CacheIdle ==
    /\ vision_log = <<>>
    /\ _models_cache = [present |-> FALSE, data |-> <<>>, ts |-> 0]
    /\ loaded = <<>>
    /\ models_log = <<>>

\* Everything but the chat run is at rest
OthersIdle == FnIdle /\ IngestIdle /\ EmbedIdle /\ CollIdle /\ CacheIdle

\* A generator that has not run yet, its arguments and collaborators drawn
RagInit(skips, hists, qs, prompts, budgets, models, idxs, loads, marks, lines, clocks, caches) ==
    /\ skip_rag \in skips
    /\ history \in hists
    /\ question \in qs
    /\ system_prompt \in prompts
    /\ context_max_chars \in budgets
    /\ model \in models
    /\ index \in idxs
    /\ loadable \in loads
    /\ model_vision \in marks
    /\ lines_left \in lines
    /\ received = <<>>
    /\ now \in clocks
    /\ _vision_cache \in caches
    /\ condense_reply \in IF ~skip_rag /\ history # <<>> /\ NeedsCondensation(question)
                          THEN CondenseReplies
                          ELSE {NoReply}
    /\ backend = "live"
    /\ pc = "start"
    /\ search_question = "question"
    /\ chunks = <<>>
    /\ supports_vision = FALSE
    /\ relevant_chunks = <<>>
    /\ prompt = NoText
    /\ messages = <<>>
    /\ events = <<>>
    /\ calls = NoCalls
    /\ outcome = "running"

EmptyCache == [m \in Models |-> NoEntry]

\* One relevant candidate that carries two images
OneChunk == AsChunks(<<[score |-> 9000, imgs |-> <<1, 2>>, clen |-> 20]>>)

\* The scores of scenario D
ScenarioD ==
    AsChunks(<<[score |-> 9000, imgs |-> <<1, 2>>, clen |-> 20],
               [score |-> 5000, imgs |-> <<>>, clen |-> 20],
               [score |-> 3000, imgs |-> <<>>, clen |-> 20]>>)

\* Runs that differ by what the collaborators do and by the lines received
InitProtocol ==
    RagInit(BOOLEAN, {History(0), History(2)}, Questions, {None}, {0}, {"m1"},
            {<<>>, OneChunk, ScenarioD}, {Images}, BOOLEAN, 0..MaxLines, {0}, {EmptyCache})

\* Runs that differ by the scores retrieved and by the character budget
InitRetrieval ==
    RagInit({FALSE}, {History(0)}, {Question(79, FALSE)}, {None}, {0, 49, 50, 100, 101},
            {"m1"}, {AsChunks(cs) : cs \in Retrievals(MaxChunks, ScoreValues, {<<>>}, {20})},
            {Images}, {FALSE}, {1}, {0}, {EmptyCache})

\* Runs that differ by the images the candidates carry and that load
InitImages ==
    RagInit({FALSE}, {History(0)}, {Question(79, FALSE)}, {None}, {0}, {"m1"},
            {AsChunks(cs) : cs \in Retrievals(MaxChunks, {9000, 4499}, ImageLists, {20})},
            {Images, {}, {2, 4}}, BOOLEAN, {1}, {0}, {EmptyCache})

\* Runs that differ by the history and the system prompt
InitMessages ==
    RagInit(BOOLEAN, {History(n) : n \in 0..MaxHist}, {Question(79, FALSE)}, SystemPrompts,
            {0}, {"m1"}, {OneChunk}, {Images}, BOOLEAN, {1}, {0}, {EmptyCache})

\* Runs that differ by what the vision cache holds and by its age
InitVision ==
    RagInit({FALSE}, {History(0)}, {Question(79, FALSE)}, {None}, {0}, Models, {OneChunk},
            {Images}, BOOLEAN, {1}, {_VISION_CACHE_TTL - 1, _VISION_CACHE_TTL},
            [Models -> {NoEntry, Entry(TRUE, 0), Entry(FALSE, 0)}])

Init ==
    /\ OthersIdle
    /\ \/ InitProtocol
       \/ InitRetrieval
       \/ InitImages
       \/ InitMessages
       \/ InitVision

Next == RagNext

Spec == Init /\ [][Next]_vars

\* The event loop resumes a generator whose awaited call has answered, and a
\* generation backend that has not stalled sends, closes or fails.
FairSpec == Spec /\ WF_vars(Next)

\* The runs of InitProtocol alone, under the same fairness
ProtocolInit == OthersIdle /\ InitProtocol

FairProtocolSpec == ProtocolInit /\ [][Next]_vars /\ WF_vars(Next)

\* ------------------------------------------------------------------------
\* Part 2: _build_prompt applied to drawn arguments
\* ------------------------------------------------------------------------
\* No chat run is in progress: one generator not yet started
RagIdle ==
    RagInit({FALSE}, {History(0)}, {Question(79, FALSE)}, {None}, {0}, {"m1"}, {<<>>},
            {Images}, {FALSE}, {0}, {0}, {EmptyCache})

PackInputs ==
    {[i \in 1..Len(cs) |-> Chunk(i, 9000, 8, cs[i].page, cs[i].clen, <<>>)] :
        cs \in SeqsUpTo([page : {0, 1}, clen : {19, 29, 59}], MaxPack)}

PromptInit ==
    /\ arg \in [question : {"question"}, chunks : PackInputs,
                context_max_chars : {0, 40, 100, 101, 150, DEFAULT_CONTEXT_MAX_CHARS}]
    /\ res = <<>>
    /\ IngestIdle
    /\ EmbedIdle
    /\ CollIdle
    /\ CacheIdle
    /\ RagIdle

ApplyBuildPrompt ==
    /\ res = <<>>
    /\ res' = <<_build_prompt(arg.question, arg.chunks, arg.context_max_chars)>>
    /\ UNCHANGED <<arg, ragVars, ingestVars, embedVars, collVars, cacheVars>>

PromptNext == ApplyBuildPrompt

PromptSpec == PromptInit /\ [][PromptNext]_vars

\* ------------------------------------------------------------------------
\* Part 3: document ingestion (routers/documents.py, docling_service.py)
\* ------------------------------------------------------------------------
Docs == 1..NumDocs

\* Positions of the ingestion task of a document:
\*   queued      the background task has not started
\*   convert     progress 10 written, convert_document about to run
\*   wait_sem    suspended in the semaphore's acquire
\*   converting  holds the semaphore, awaits the worker thread
\*   embed       conversion returned, embeddings awaited
\*   index       embeddings returned, the index write awaited
\*   commit      points written, the record's final update awaited
\*   closing     the update committed, the close of the session awaited
\*   done        _process_document has returned
Running(d) == ipc[d] \notin {"queued", "done", "raised"}

\* Mutant of SemLocked: a semaphore created afresh for every conversion
SemLocked_FreshPerCall == FALSE

\* Semaphore.locked(): no slot is left, or a task is already waiting
SemLocked == sem_value = 0 \/ \E i \in 1..Len(sem_waiters) : sem_waiters[i] \notin sem_granted

Without(q, d) == SelectSeq(q, LAMBDA x : x # d)

\* Mutant of Released: leaving the async with gives nothing back
Released_Nothing(ws, granted, value) == [value |-> value, granted |-> granted]

\* Semaphore.release() with the waiters ws: the slot goes to the first
\* waiter not yet served, else the value is raised
Released(ws, granted, value) ==
    LET pending == SelectSeq(ws, LAMBDA x : x \notin granted)
    IN  IF pending # <<>>
        THEN [value |-> value, granted |-> granted \cup {Head(pending)}]
        ELSE [value |-> value + 1, granted |-> granted]

\* The work a pipeline has done (count is what upsert_chunks returned to
\* it): n more progress updates, embedding calls
\* or index writes of document d
Did(d, kind, n) == work' = [work EXCEPT ![d][kind] = @ + n]

\* Lengths of the messages of the exceptions a pipeline stage raises
MessageLengths == {40, ERROR_MESSAGE_MAX, ERROR_MESSAGE_MAX + 1}

\* Mutant of Truncate: the whole message is stored
Truncate_None(n) == n

\* str(e)[:500]
Truncate(n) == Min(n, ERROR_MESSAGE_MAX)

\* db.get(Document, id) finds the record of d
Exists(d) == status[d] # "deleted"

\* _update_progress: if doc: doc.progress = p
UpdateProgress(d, p) == progress' = IF Exists(d) THEN [progress EXCEPT ![d] = p] ELSE progress

\* _set_error: the record of d, if there is one, becomes an error record
\* (doc.status_detail and doc.error_message hold the same text)
SetError(d, n) ==
    /\ status' = IF Exists(d) THEN [status EXCEPT ![d] = "error"] ELSE status
    /\ progress' = IF Exists(d) THEN [progress EXCEPT ![d] = 0] ELSE progress
    /\ error_message' = IF Exists(d) THEN [error_message EXCEPT ![d] = n] ELSE error_message

\* _run_pipeline up to convert_document: the first progress update
StartPipeline(d) ==
    /\ ipc[d] = "queued"
    /\ ipc' = [ipc EXCEPT ![d] = "convert"]
    /\ UpdateProgress(d, 10)
    /\ Did(d, "updates", 1)
    /\ UNCHANGED <<path, status, semVars, threads, chunk_count, error_message, points,
                   cancelled, dpc, ingestOthers>>

\* Mutant of Failed: the exception is recorded and raised again
Failed_Reraise(d) ==
    /\ ipc' = [ipc EXCEPT ![d] = "raised"]
    /\ \E n \in MessageLengths : SetError(d, Truncate(n))

\* A stage of _run_pipeline raised: except Exception records the truncated
\* message with _set_error, and _process_document returns
Failed(d) ==
    /\ ipc' = [ipc EXCEPT ![d] = "done"]
    /\ \E n \in MessageLengths : SetError(d, Truncate(n))

\* The conversion has returned its chunks: progress 40 and 60, then embed
Converted(d) ==
    /\ ipc' = [ipc EXCEPT ![d] = "embed"]
    /\ UpdateProgress(d, 60)
    /\ Did(d, "updates", 2)
    /\ UNCHANGED <<status, error_message>>

\* convert_document, Docling path: async with _get_semaphore() takes the
\* slot and starts the worker thread, or suspends the task
AcquireSem(d) ==
    /\ ipc[d] = "convert"
    /\ path[d] = "docling"
    /\ IF SemLocked
       THEN /\ sem_waiters' = Append(sem_waiters, d)
            /\ ipc' = [ipc EXCEPT ![d] = "wait_sem"]
            /\ UNCHANGED <<sem_value, threads>>
       ELSE /\ sem_value' = sem_value - 1
            /\ ipc' = [ipc EXCEPT ![d] = "converting"]
            /\ threads' = threads \cup {d}
            /\ UNCHANGED sem_waiters
    /\ UNCHANGED <<path, status, progress, sem_granted, chunk_count, error_message, points,
                   cancelled, work, dpc, ingestOthers>>

\* A waiter that was handed the slot resumes and starts its worker thread
ResumeWaiter(d) ==
    /\ ipc[d] = "wait_sem"
    /\ d \in sem_granted
    /\ sem_waiters' = Without(sem_waiters, d)
    /\ sem_granted' = sem_granted \ {d}
    /\ ipc' = [ipc EXCEPT ![d] = "converting"]
    /\ threads' = threads \cup {d}
    /\ UNCHANGED <<path, status, progress, sem_value, chunk_count, error_message, points,
                   cancelled, work, dpc, ingestOthers>>

\* The worker thread of d ends (chunks, no chunk, or an exception).  A task
\* still awaiting it leaves the async with, which releases the semaphore.
ThreadEnds(d) ==
    /\ d \in threads
    /\ threads' = threads \ {d}
    /\ IF ipc[d] = "converting"
       THEN /\ LET r == Released(sem_waiters, sem_granted, sem_value)
               IN  sem_value' = r.value /\ sem_granted' = r.granted
            /\ \/ Converted(d)
               \/ Failed(d) /\ UNCHANGED work
       ELSE UNCHANGED <<ipc, status, progress, sem_value, sem_granted, error_message, work>>
    /\ UNCHANGED <<path, sem_waiters, chunk_count, points, cancelled, dpc, ingestOthers>>

\* convert_document, fallback path: parsed and chunked in the event loop,
\* without the semaphore
FallbackConvert(d) ==
    /\ ipc[d] = "convert"
    /\ path[d] = "fallback"
    /\ \/ Converted(d)
       \/ Failed(d) /\ UNCHANGED work
    /\ UNCHANGED <<path, semVars, threads, chunk_count, points, cancelled, dpc, ingestOthers>>

\* get_embeddings returns or raises; progress 85
EmbedChunks(d) ==
    /\ ipc[d] = "embed"
    /\ \/ /\ ipc' = [ipc EXCEPT ![d] = "index"]
          /\ UpdateProgress(d, 85)
          /\ work' = [work EXCEPT ![d].embeds = @ + 1, ![d].updates = @ + 1]
          /\ UNCHANGED <<status, error_message>>
       \/ Failed(d) /\ Did(d, "embeds", 1)
    /\ UNCHANGED <<path, semVars, threads, chunk_count, points, cancelled, dpc, ingestOthers>>

\* ensure_collection and upsert_chunks return, writing one point per chunk
\* of d, or one of them raises
IndexChunks(d) ==
    /\ ipc[d] = "index"
    /\ \/ /\ ipc' = [ipc EXCEPT ![d] = "commit"]
          /\ \E n \in 1..MaxDocChunks :
                 /\ points' = [points EXCEPT ![d] = n]
                 /\ work' = [work EXCEPT ![d].writes = @ + 1, ![d].count = n]
          /\ UNCHANGED <<status, progress, error_message>>
       \/ Failed(d) /\ UNCHANGED <<points, work>>
    /\ UNCHANGED <<path, semVars, threads, chunk_count, cancelled, dpc, ingestOthers>>

\* The record, if there is one, becomes ready with the number of points
\* written (count, what upsert_chunks returned) and the update is
\* committed, or the database raises
CommitReady(d) ==
    /\ ipc[d] = "commit"
    /\ \/ /\ ipc' = [ipc EXCEPT ![d] = "closing"]
          /\ status' = IF Exists(d) THEN [status EXCEPT ![d] = "ready"] ELSE status
          /\ chunk_count' = IF Exists(d) THEN [chunk_count EXCEPT ![d] = work[d].count]
                             ELSE chunk_count
          /\ UpdateProgress(d, 100)
          /\ UNCHANGED error_message
       \/ Failed(d) /\ UNCHANGED chunk_count
    /\ UNCHANGED <<path, semVars, threads, points, cancelled, work, dpc, ingestOthers>>

\* The session of _run_pipeline is closed and _process_document returns
SessionClosed(d) ==
    /\ ipc[d] = "closing"
    /\ ipc' = [ipc EXCEPT ![d] = "done"]
    /\ UNCHANGED <<path, status, progress, semVars, threads, chunk_count, error_message,
                   points, cancelled, work, dpc, ingestOthers>>

\* Mutant of PipelineTimeout: the error is recorded but the pipeline is
\* left running
PipelineTimeout_NoCancel(d) ==
    /\ Running(d)
    /\ SetError(d, TIMEOUT_MESSAGE_LEN)
    /\ cancelled' = cancelled \cup {d}
    /\ UNCHANGED <<ipc, path, semVars, threads, chunk_count, points, work, dpc, ingestOthers>>

\* asyncio.wait_for: the ceiling elapses, the task is cancelled where it is
\* suspended and _set_error runs.  A cancelled waiter leaves the queue (and
\* gives back a slot it was handed); a cancelled holder leaves the async
\* with, releasing the semaphore, while its worker thread runs on.
PipelineTimeout(d) ==
    /\ Running(d)
    /\ ipc' = [ipc EXCEPT ![d] = "done"]
    /\ SetError(d, TIMEOUT_MESSAGE_LEN)
    /\ cancelled' = cancelled \cup {d}
    /\ LET ws == Without(sem_waiters, d)
           gs == sem_granted \ {d}
           r  == IF ipc[d] = "converting" \/ d \in sem_granted
                 THEN Released(ws, gs, sem_value)
                 ELSE [value |-> sem_value, granted |-> gs]
       IN  /\ sem_waiters' = ws
           /\ sem_value' = r.value
           /\ sem_granted' = r.granted
    /\ UNCHANGED <<path, threads, chunk_count, points, work, dpc, ingestOthers>>

NoWork == [updates |-> 0, embeds |-> 0, writes |-> 0, count |-> 0]

IngestInit ==
    /\ ipc = [d \in Docs |-> "queued"]
    /\ path \in [Docs -> {"docling", "fallback"}]
    /\ status = [d \in Docs |-> "processing"]
    /\ progress = [d \in Docs |-> 0]
    /\ sem_value = 1
    /\ sem_waiters = <<>>
    /\ sem_granted = {}
    /\ threads = {}
    /\ chunk_count = [d \in Docs |-> 0]
    /\ error_message = [d \in Docs |-> 0]
    /\ points = [d \in Docs |-> 0]
    /\ cancelled = {}
    /\ work = [d \in Docs |-> NoWork]
    /\ dpc = [d \in Docs |-> "none"]
    /\ FnIdle
    /\ EmbedIdle
    /\ CollIdle
    /\ CacheIdle
    /\ RagIdle

IngestNext ==
    \E d \in Docs :
        \/ StartPipeline(d)
        \/ AcquireSem(d)
        \/ ResumeWaiter(d)
        \/ ThreadEnds(d)
        \/ FallbackConvert(d)
        \/ EmbedChunks(d)
        \/ IndexChunks(d)
        \/ CommitReady(d)
        \/ SessionClosed(d)
        \/ PipelineTimeout(d)

IngestSpec == IngestInit /\ [][IngestNext]_vars

\* delete_document, up to delete_document_chunks: the record is found and
\* the points of d are deleted from the index
DeleteChunks(d) ==
    /\ dpc[d] = "none"
    /\ Exists(d)
    /\ dpc' = [dpc EXCEPT ![d] = "row"]
    /\ points' = [points EXCEPT ![d] = 0]
    /\ UNCHANGED <<ipc, path, status, progress, semVars, threads, chunk_count,
                   error_message, cancelled, work, ingestOthers>>

\* delete_document: db.delete(doc) and the commit; the record is gone
DeleteRow(d) ==
    /\ dpc[d] = "row"
    /\ dpc' = [dpc EXCEPT ![d] = "done"]
    /\ status' = [status EXCEPT ![d] = "deleted"]
    /\ UNCHANGED <<ipc, path, progress, semVars, threads, chunk_count, error_message,
                   points, cancelled, work, ingestOthers>>

\* The ingestion of documents of which the first may be deleted meanwhile
DeleteNext ==
    \/ IngestNext
    \/ DeleteChunks(1)
    \/ DeleteRow(1)

DeleteSpec == IngestInit /\ [][DeleteNext]_vars

\* The task of d leaves the conversion it awaits: the worker thread ends or
\* the ceiling of wait_for elapses
LeaveConversion(d) == ipc[d] = "converting" /\ (ThreadEnds(d) \/ PipelineTimeout(d))

\* The ingestion under the scheduling of the event loop: a task that was
\* handed the slot is resumed, and no task stays in its conversion for
\* ever, the ceiling ending it at the latest
FairIngestSpec ==
    /\ IngestInit
    /\ [][IngestNext]_vars
    /\ \A d \in Docs : WF_vars(ResumeWaiter(d)) /\ WF_vars(LeaveConversion(d))

\* The documents between the start of their conversion and the end of their
\* indexing, and the ingestion tasks inside the semaphore
InIngestion == {d \in Docs : ipc[d] \in {"converting", "embed", "index"}}

GateHolders == {d \in Docs : ipc[d] = "converting"} \cup sem_granted

C11_OneConverterAtATime == Cardinality(threads) <= 1

BecomesError(d) == status[d] # "error" /\ status'[d] = "error"

Tasks == 1..NumTasks

\* Texts are numbered.  The backend answers text EMPTY_TEXT with an empty
\* vector and text REJECTED_TEXT with an error status.
EMPTY_TEXT == 0

REJECTED_TEXT == 9

\* What the embedding backend answers to a text
Response(x) ==
    IF x = REJECTED_TEXT THEN [ok |-> FALSE, embedding |-> <<>>]
    ELSE IF x = EMPTY_TEXT THEN [ok |-> TRUE, embedding |-> <<>>]
    ELSE [ok |-> TRUE, embedding |-> <<x, x + 10>>]

\* A result slot of asyncio.gather not yet filled
Pending == <<-1>>

\* n texts the backend embeds, no two neighbours alike
GoodTexts(n) == [i \in 1..n |-> ((i - 1) % 3) + 1]

\* The same with text x at position p
TextsWith(n, p, x) == [GoodTexts(n) EXCEPT ![p] = x]

\* The texts of the chunks of a document
TextLists ==
    {GoodTexts(n) : n \in {0, 1, EMBEDDING_BATCH_SIZE, MaxTexts}}
        \cup {TextsWith(MaxTexts, 2, EMPTY_TEXT), TextsWith(2, 1, REJECTED_TEXT),
              TextsWith(MaxTexts, MaxTexts, EMPTY_TEXT)}

\* The texts of the shorter calls running next to it (get_embedding embeds
\* the one text of a query)
QueryLists == {<<>>, GoodTexts(1), TextsWith(2, 2, EMPTY_TEXT)}

\* Mutant of BatchEnd: all the texts in one batch
BatchEnd_Whole(t, i) == Len(texts[t])

\* texts[i:i + EMBEDDING_BATCH_SIZE]: the last position of the batch at i
BatchEnd(t, i) == Min(i + EMBEDDING_BATCH_SIZE, Len(texts[t]))

\* _single_embedding(texts[p], client) of task t, at the backend
Call(t, p) == [task |-> t, pos |-> p, text |-> texts[t][p]]

\* The calls of the batch at offset i, one per text, as posted by gather
BatchCalls(t, i) == {Call(t, p) : p \in (i + 1)..BatchEnd(t, i)}

\* gather over the batch at offset i: every call is posted, every slot pending
IssueBatch(t, i) ==
    /\ offset' = [offset EXCEPT ![t] = i]
    /\ slots' = [slots EXCEPT ![t] = [k \in 1..(BatchEnd(t, i) - i) |-> Pending]]
    /\ posted' = [posted EXCEPT ![t] = @ + (BatchEnd(t, i) - i)]

\* _do_get_embeddings up to its first await: an empty input returns [] at
\* once, otherwise the first batch is gathered
StartEmbed(t) ==
    /\ epc[t] = "ready"
    /\ IF texts[t] = <<>>
       THEN /\ epc' = [epc EXCEPT ![t] = "returned"]
            /\ UNCHANGED <<offset, slots, posted, inflight>>
       ELSE /\ epc' = [epc EXCEPT ![t] = "gather"]
            /\ IssueBatch(t, 0)
            /\ inflight' = inflight \cup BatchCalls(t, 0)
    /\ UNCHANGED <<texts, results, ragVars, fnVars, ingestVars, collVars, cacheVars>>

\* Mutant of SlotOf: the results are kept in the order the calls complete
SlotOf_CompletionOrder(t, c) ==
    CHOOSE k \in 1..Len(slots[t]) :
        slots[t][k] = Pending /\ \A j \in 1..(k - 1) : slots[t][j] # Pending

\* gather returns its results in the order of its awaitables: the slot of
\* call c is its position in the batch
SlotOf(t, c) == c.pos - offset[t]

\* Mutant of CallFails: an empty vector is accepted
CallFails_StatusOnly(r) == ~r.ok

\* _single_embedding raises: raise_for_status, or an empty embedding
CallFails(r) == ~r.ok \/ r.embedding = <<>>

\* The backend answers the call for text p of task t.  _single_embedding returns the vector or
\* raises; the first exception makes gather, and with it the whole
\* embed_many call, raise, the other calls of the batch staying in flight.
\* When the last slot is filled the batch is appended to results and the
\* next batch is gathered, or the list is returned.
Respond(t, p) ==
    /\ p \in 1..Len(texts[t])
    /\ Call(t, p) \in inflight
    /\ UNCHANGED <<texts, ragVars, fnVars, ingestVars, collVars, cacheVars>>
    /\ LET c == Call(t, p)
           r == Response(c.text)
           filled == [slots[t] EXCEPT ![SlotOf(t, c)] = r.embedding]
           i == BatchEnd(t, offset[t])
       IN  IF epc[t] # "gather"
           THEN /\ inflight' = inflight \ {c}
                /\ UNCHANGED <<epc, offset, slots, results, posted>>
           ELSE IF CallFails(r)
           THEN /\ inflight' = inflight \ {c}
                /\ epc' = [epc EXCEPT ![t] = "raised"]
                /\ UNCHANGED <<offset, slots, results, posted>>
           ELSE IF \E k \in 1..Len(filled) : filled[k] = Pending
           THEN /\ inflight' = inflight \ {c}
                /\ slots' = [slots EXCEPT ![t] = filled]
                /\ UNCHANGED <<epc, offset, results, posted>>
           ELSE /\ results' = [results EXCEPT ![t] = @ \o filled]
                /\ IF i < Len(texts[t])
                   THEN /\ IssueBatch(t, i)
                        /\ inflight' = (inflight \ {c}) \cup BatchCalls(t, i)
                        /\ UNCHANGED epc
                   ELSE /\ epc' = [epc EXCEPT ![t] = "returned"]
                        /\ inflight' = inflight \ {c}
                        /\ slots' = [slots EXCEPT ![t] = <<>>]
                        /\ UNCHANGED <<offset, posted>>

EmbedInit ==
    /\ texts \in {ts \in [Tasks -> TextLists \cup QueryLists] :
                    \A t \in Tasks \ {1} : ts[t] \in QueryLists}
    /\ epc = [t \in Tasks |-> "ready"]
    /\ offset = [t \in Tasks |-> 0]
    /\ slots = [t \in Tasks |-> <<>>]
    /\ results = [t \in Tasks |-> <<>>]
    /\ posted = [t \in Tasks |-> 0]
    /\ inflight = {}
    /\ FnIdle
    /\ IngestIdle
    /\ CollIdle
    /\ CacheIdle
    /\ RagIdle

EmbedNext ==
    \/ \E t \in Tasks : StartEmbed(t)
    \/ \E t \in Tasks, p \in 1..MaxTexts : Respond(t, p)

EmbedSpec == EmbedInit /\ [][EmbedNext]_vars

\* ------------------------------------------------------------------------
\* Part 5: startup and ensure_collection (main.py, qdrant_service.py)
\* ------------------------------------------------------------------------
\* The lifespan is caller 0 of ensure_collection, the ingestions the others
LIFESPAN == 0

Callers == 1..NumCallers

\* Length of the vectors of the embedding model
MODEL_DIM == 4

\* Positions of the lifespan: verify, list, create, sleep, serving (after
\* the yield).  Positions of an ingestion's ensure_collection call: idle,
\* list, create, returned, raised.
Serving == cpc[LIFESPAN] = "serving"

\* The dimension caller c passes: the verified one, or len(embeddings[0])
DimOf(c) == IF c = LIFESPAN THEN dim ELSE MODEL_DIM

\* lifespan: once the loop is over, with or without a break, the
\* application is yielded to the server
AfterAttempts == "serving"

\* except Exception in the lifespan's loop: sleep and retry, or, on the
\* last attempt, log the error and leave the loop
AttemptFailed ==
    cpc' = [cpc EXCEPT ![LIFESPAN] = IF attempt = STARTUP_ATTEMPTS THEN AfterAttempts ELSE "sleep"]

\* ensure_collection returned to caller c
Ensured(c) == cpc' = [cpc EXCEPT ![c] = IF c = LIFESPAN THEN "serving" ELSE "returned"]

\* ensure_collection raised to caller c
EnsureRaised(c) ==
    IF c = LIFESPAN THEN AttemptFailed ELSE cpc' = [cpc EXCEPT ![c] = "raised"]

\* if _collection_ready: return
MustList == ~_collection_ready

\* ensure_collection up to its first await: return at once when the flag is
\* set, else ask the vector store for its collections
EnterEnsure(c) ==
    IF MustList
    THEN /\ cpc' = [cpc EXCEPT ![c] = "list"]
         /\ list_calls' = list_calls + 1
    ELSE /\ Ensured(c)
         /\ UNCHANGED list_calls

\* Mutant of Wait: the wait grows by two seconds per attempt
WaitLinear(n) == 2 * n

\* wait = 2 ** attempt, in seconds
Wait(n) == 2 ^ n

\* The lifespan's sleep between two attempts is over; slept lists the waits
\* the lifespan has slept through
NextAttempt ==
    /\ cpc[LIFESPAN] = "sleep"
    /\ attempt' = attempt + 1
    /\ slept' = Append(slept, Wait(attempt))
    /\ cpc' = [cpc EXCEPT ![LIFESPAN] = "verify"]
    /\ UNCHANGED <<_collection_ready, collection, dim, list_calls, create_calls, store_faults,
                   ragVars, fnVars, ingestVars, embedVars,
                   cacheVars>>

\* verify_embedding_model returns the length of the probe's vector, and
\* ensure_collection(dim) starts; or it raises (empty vector, backend
\* unreachable)
Verify ==
    /\ cpc[LIFESPAN] = "verify"
    /\ \/ /\ dim' = MODEL_DIM
          /\ EnterEnsure(LIFESPAN)
       \/ /\ AttemptFailed
          /\ UNCHANGED <<dim, list_calls>>
    /\ UNCHANGED <<_collection_ready, collection, attempt, create_calls, store_faults, slept,
                   ragVars, fnVars, ingestVars, embedVars,
                   cacheVars>>

\* An ingestion reaches ensure_collection(len(embeddings[0])); uploads are
\* served once the lifespan has yielded
CallEnsure(c) ==
    /\ Serving
    /\ cpc[c] = "idle"
    /\ EnterEnsure(c)
    /\ UNCHANGED <<_collection_ready, collection, attempt, dim, create_calls, store_faults, slept,
                   ragVars, fnVars, ingestVars, embedVars,
                   cacheVars>>

\* get_collections answers caller c: a present collection sets the flag, an
\* absent one is created; or the call raises
Listed(c) ==
    /\ cpc[c] = "list"
    /\ \/ /\ collection = 0
          /\ cpc' = [cpc EXCEPT ![c] = "create"]
          /\ create_calls' = create_calls + 1
          /\ UNCHANGED <<_collection_ready, store_faults>>
       \/ /\ collection # 0
          /\ _collection_ready' = TRUE
          /\ Ensured(c)
          /\ UNCHANGED <<create_calls, store_faults>>
       \/ /\ EnsureRaised(c)
          /\ store_faults' = store_faults + 1
          /\ UNCHANGED <<_collection_ready, create_calls>>
    /\ UNCHANGED <<collection, attempt, dim, list_calls, slept, ragVars, fnVars, ingestVars, embedVars,
                   cacheVars>>

\* create_collection answers caller c: the collection is created with the
\* caller's dimension and the flag is set; or the store refuses because the
\* collection exists by now; or the call raises
Created(c) ==
    /\ cpc[c] = "create"
    /\ \/ /\ collection = 0
          /\ collection' = DimOf(c)
          /\ _collection_ready' = TRUE
          /\ Ensured(c)
          /\ UNCHANGED store_faults
       \/ /\ collection # 0
          /\ EnsureRaised(c)
          /\ UNCHANGED <<collection, _collection_ready, store_faults>>
       \/ /\ EnsureRaised(c)
          /\ store_faults' = store_faults + 1
          /\ UNCHANGED <<collection, _collection_ready>>
    /\ UNCHANGED <<attempt, dim, list_calls, create_calls, slept, ragVars, fnVars, ingestVars, embedVars,
                   cacheVars>>

\* The process starts: the flag is unset, the collection may exist from an
\* earlier run, the first attempt begins
LifespanInit ==
    /\ _collection_ready = FALSE
    /\ collection \in {0, MODEL_DIM}
    /\ attempt = 1
    /\ dim = 0
    /\ cpc = [c \in {LIFESPAN} \cup Callers |-> IF c = LIFESPAN THEN "verify" ELSE "idle"]
    /\ list_calls = 0
    /\ create_calls = 0
    /\ store_faults = 0
    /\ slept = <<>>

StartInit ==
    /\ LifespanInit
    /\ FnIdle
    /\ IngestIdle
    /\ EmbedIdle
    /\ CacheIdle
    /\ RagIdle

StartNext ==
    \/ Verify
    \/ NextAttempt
    \/ \E c \in Callers : CallEnsure(c)
    \/ \E c \in {LIFESPAN} \cup Callers : Listed(c)
    \/ \E c \in {LIFESPAN} \cup Callers : Created(c)

StartSpec == StartInit /\ [][StartNext]_vars

\* A chat request is served once the lifespan has yielded
Request == Serving /\ RagNext

\* The process from its start to the end of one chat request: the question
\* is short or long, asked with or without history, the index holds a
\* relevant chunk or nothing
InitServe ==
    RagInit({FALSE}, {History(0), History(2)}, {Question(15, TRUE), Question(80, FALSE)},
            {None}, {0}, {"m1"}, {<<>>, OneChunk}, {Images}, {FALSE}, 0..1, {0}, {EmptyCache})

ServeInit ==
    /\ LifespanInit
    /\ FnIdle
    /\ IngestIdle
    /\ EmbedIdle
    /\ CacheIdle
    /\ InitServe

ServeNext ==
    \/ Verify
    \/ NextAttempt
    \/ Listed(LIFESPAN)
    \/ Created(LIFESPAN)
    \/ Request

ServeSpec == ServeInit /\ [][ServeNext]_vars

\* C18: at process start the embedding dimension is verified and used to
\* size the vector collection; if the verification never yields a non-zero
\* dimension, startup fails and the application does not begin serving.
C18_StartupNeedsDimension ==
    /\ Serving => dim # 0
    /\ collection \in {0, MODEL_DIM}

\* C19: for two calls of ensure_collection with the same dimension, whether
\* the second starts after the first returns or while the first is still
\* suspended on the vector store, the create-collection call is performed at
\* most once (the vector store answering every call).
C19_CreateAtMostOnce == store_faults = 0 => create_calls <= 1

\* C20: across any sequence of ensure_collection calls in one process
\* lifetime, the collection listing is performed at most once (the vector
\* store answering every call).
C20_ListAtMostOnce == store_faults = 0 => list_calls <= 1

\* The calls of task t at the backend
InFlightOf(t) == {c \in inflight : c.task = t}

\* The batch a position belongs to
BatchOf(p) == (p - 1) \div EMBEDDING_BATCH_SIZE

\* The first text of task t the backend does not embed, 0 if there is none
FirstFailing(t) ==
    LET bad == {p \in 1..Len(texts[t]) : CallFails(Response(texts[t][p]))}
    IN  IF bad = {} THEN 0 ELSE CHOOSE p \in bad : \A q \in bad : p <= q

\* C14: a successful embed_many(texts) returns a list of the same length
\* whose i-th element is the embedding the backend produced for texts[i],
\* whatever the order in which the calls of a batch complete; embed_many([])
\* returns [] without calling the backend.
C14_OrderPreserved ==
    \A t \in Tasks :
        epc[t] = "returned" =>
            /\ Len(results[t]) = Len(texts[t])
            /\ \A i \in 1..Len(texts[t]) : results[t][i] = Response(texts[t][i]).embedding
            /\ texts[t] = <<>> => posted[t] = 0

\* A full list returned while a shorter call is still running, and an empty
\* call returned
C14_Witness ==
    /\ epc[1] = "returned" /\ Len(results[1]) = MaxTexts
    /\ \E t \in Tasks : texts[t] = <<>> /\ epc[t] = "returned"

\* C15: within one embed_many call the inputs are partitioned into
\* consecutive batches of at most 8 items; at most 8 embedding calls of that
\* call are in flight at any moment, and no call of batch k+1 is issued
\* before every call of batch k has completed.
C15_BatchesInSequence ==
    \A t \in Tasks :
        /\ Cardinality(InFlightOf(t)) <= EMBEDDING_BATCH_SIZE
        /\ \A c1, c2 \in InFlightOf(t) : BatchOf(c1.pos) = BatchOf(c2.pos)
        /\ epc[t] = "gather" =>
              /\ offset[t] % EMBEDDING_BATCH_SIZE = 0
              /\ Len(slots[t]) <= EMBEDDING_BATCH_SIZE
              /\ Len(results[t]) = offset[t]
              /\ posted[t] = offset[t] + Len(slots[t])
              /\ \A k \in 1..Len(slots[t]) :
                    slots[t][k] = Pending <=> Call(t, offset[t] + k) \in inflight
              /\ \A c \in InFlightOf(t) : c.pos \in (offset[t] + 1)..(offset[t] + Len(slots[t]))

\* The second batch of a call is in flight, the first one is in results
C15_Witness ==
    /\ epc[1] = "gather" /\ offset[1] = EMBEDDING_BATCH_SIZE
    /\ Len(results[1]) = EMBEDDING_BATCH_SIZE
    /\ InFlightOf(1) # {}

\* C16: an individual embedding call fails when the backend returns an empty
\* vector, and a single failing item makes the whole embed_many call fail:
\* the caller receives an error and no partial list, and no batch after the
\* failing one is started.
C16_AllOrNothing ==
    \A t \in Tasks :
        /\ epc[t] = "returned" => FirstFailing(t) = 0
        /\ epc[t] = "raised" =>
              /\ FirstFailing(t) # 0
              /\ \E p \in 1..Len(texts[t]) :
                    /\ CallFails(Response(texts[t][p]))
                    /\ Call(t, p) \notin inflight
                    /\ posted[t] = BatchEnd(t, BatchOf(p) * EMBEDDING_BATCH_SIZE)
        /\ FirstFailing(t) # 0 =>
              posted[t] <= BatchEnd(t, BatchOf(FirstFailing(t)) * EMBEDDING_BATCH_SIZE)
        /\ \A p \in 1..Len(texts[t]) :
              (texts[t][p] = EMPTY_TEXT /\ posted[t] >= p /\ Call(t, p) \notin inflight)
                  => epc[t] = "raised"

\* A call failed on an empty vector in its first batch while other calls
\* of the batch are still at the backend
C16_Witness ==
    /\ epc[1] = "raised"
    /\ texts[1][2] = EMPTY_TEXT
    /\ posted[1] = EMBEDDING_BATCH_SIZE
    /\ InFlightOf(1) # {}

\* C17: at every moment the number of embedding calls in flight at the
\* embedding backend is at most 8, for every interleaving of the tasks that
\* embed concurrently in the process.
C17_GlobalInFlightBound == Cardinality(inflight) <= EMBEDDING_BATCH_SIZE

\* ------------------------------------------------------------------------
\* Properties of the event stream
\* ------------------------------------------------------------------------
Count(evs, type) == Cardinality({i \in 1..Len(evs) : evs[i].type = type})

IsTerminal(e) == e.type \in {"done", "error"}

\* The messages exist: steps 6 to 8 (or the skip_rag branch) have run
Assembled == messages # <<>>

UserTurn == messages[Len(messages)]

\* C1: every run emits exactly one sources event before any token event,
\* then token events, then exactly one terminal event (done or error), and
\* nothing after the terminal event.
C1_EventContract ==
    /\ Count(events, "sources") <= 1
    /\ \A i \in 1..Len(events) :
          events[i].type = "token" => \E j \in 1..(i - 1) : events[j].type = "sources"
    /\ \A i \in 1..(Len(events) - 1) : ~IsTerminal(events[i])
    /\ \A i \in 1..Len(events) :
          events[i].type = "sources" => \A j \in 1..(i - 1) : events[j].type # "token"
    /\ pc = "end" =>
          /\ Count(events, "sources") = 1
          /\ events # <<>>
          /\ IsTerminal(events[Len(events)])

\* C2: a failed embedding or a failed vector search gives exactly one error
\* event and ends the run: the call is not repeated, no later step of the
\* pipeline is invoked and the generator returns normally.
C2_RetrievalFailureTerminates ==
    /\ (\E i \in 1..Len(events) : events[i] = ErrorEvent("embedding")) =>
          /\ events = <<ErrorEvent("embedding")>>
          /\ pc = "end" /\ outcome = "returned"
          /\ calls.embed = 1 /\ calls.search = 0
          /\ calls.vision = 0 /\ calls.image = 0 /\ calls.stream = 0
    /\ (\E i \in 1..Len(events) : events[i] = ErrorEvent("recherche")) =>
          /\ events = <<ErrorEvent("recherche")>>
          /\ pc = "end" /\ outcome = "returned"
          /\ calls.embed = 1 /\ calls.search = 1
          /\ calls.vision = 0 /\ calls.image = 0 /\ calls.stream = 0
    /\ outcome # "raised"
    /\ calls.embed <= 1 /\ calls.search <= 1

C2_Witness ==
    /\ pc = "end"
    /\ events = <<ErrorEvent("recherche")>>
    /\ calls.embed = 1 /\ calls.search = 1

\* C3: once the generation backend stalls while its lines are read, or the
\* transport fails, the run eventually emits a single error event, never a
\* done event, and the generation stream is opened at most once.
C3_StallEndsInError ==
    /\ (backend = "stalled") ~> (Count(events, "error") = 1 /\ Count(events, "done") = 0)
    /\ [](Count(events, "error") > 0 =>
            (Count(events, "error") = 1 /\ Count(events, "done") = 0 /\ pc = "end"))
    /\ [](calls.stream <= 1)

\* The ids of the candidates of a list, and the candidates scoring at least t
Ids(cs) == {cs[i].id : i \in 1..Len(cs)}

ScoringAtLeast(cs, t) == {cs[i].id : i \in {j \in 1..Len(cs) : cs[j].score >= t}}

SourcesOf(evs) == evs[CHOOSE i \in 1..Len(evs) : evs[i].type = "sources"].sources

\* C4: in a run that retrieved, a candidate is relevant exactly when its
\* score is at least 0.45, and the sources event lists every candidate
\* retrieved, relevant or not, in retrieval order; the scores 0.9, 0.5, 0.3
\* give 2 relevant candidates and 3 sources.
C4_RelevanceAndSources ==
    /\ (~skip_rag /\ Count(events, "sources") > 0) =>
          /\ Len(SourcesOf(events)) = Len(index)
          /\ \A i \in 1..Len(index) :
                /\ SourcesOf(events)[i].document_id = index[i].id
                /\ SourcesOf(events)[i].image_filenames = index[i].imgs
    /\ (~skip_rag /\ Assembled) =>
          /\ Ids(relevant_chunks) = ScoringAtLeast(index, 4500)
          /\ Len(relevant_chunks) = Cardinality(ScoringAtLeast(index, 4500))
          /\ (index = ScenarioD => Len(relevant_chunks) = 2 /\ Len(SourcesOf(events)) = 3)

C4_Witness ==
    /\ ~skip_rag /\ Assembled
    /\ index = ScenarioD
    /\ Len(relevant_chunks) = 2
    /\ Len(SourcesOf(events)) = 3

\* C5: the user prompt is the context prompt built from the relevant
\* candidates only when there is one, the "documents unhelpful" prompt when
\* candidates were retrieved and none is relevant, the fallback prompt when
\* nothing was retrieved; an empty retrieval gives one sources event with an
\* empty list, the fallback prompt, and done when the backend completes.
C5_PromptChoice ==
    /\ (~skip_rag /\ Assembled) =>
          /\ UserTurn.text = prompt
          /\ prompt.q = "question"
          /\ prompt.tag \in {"context", "irrelevant", "nodocs"}
          /\ prompt.tag = "context" <=> ScoringAtLeast(index, 4500) # {}
          /\ prompt.tag = "context" => Range(prompt.body) \subseteq ScoringAtLeast(index, 4500)
          /\ prompt.tag = "irrelevant" <=> (index # <<>> /\ ScoringAtLeast(index, 4500) = {})
          /\ prompt.tag = "nodocs" <=> index = <<>>
    /\ (~skip_rag /\ index = <<>> /\ events # <<>> /\ events[1].type # "error") =>
          /\ events[1] = SourcesEvent(<<>>)
          /\ Count(events, "sources") = 1
          /\ Count(events, "done") > 0 =>
                /\ prompt.tag = "nodocs"
                /\ calls.stream = 1
                /\ events[Len(events)] = DoneEvent
                /\ \A i \in 2..(Len(events) - 1) : events[i].type = "token"

C5_Witness ==
    /\ ~skip_rag /\ index = <<>> /\ pc = "end"
    /\ Len(events) = 3
    /\ events[1] = SourcesEvent(<<>>)
    /\ events[2].type = "token"
    /\ events[3] = DoneEvent
    /\ UserTurn.text.tag = "nodocs"

\* C6: the context block _build_prompt assembles never exceeds the budget,
\* holds the candidates in ranked order, and holds each candidate whole or
\* not at all: it is the first candidates of the list, up to the first one
\* that would overflow.
C6_ContextWithinBudget ==
    res # <<>> =>
        LET out == res[1]
            n   == Len(out.body)
        IN  /\ out.ctx <= arg.context_max_chars
            /\ n <= Len(arg.chunks)
            /\ \A k \in 1..n : out.body[k] = arg.chunks[k].id
            /\ out.ctx = JoinLen([k \in 1..n |-> ChunkTextLen(k - 1, arg.chunks[k])])
            /\ n < Len(arg.chunks) =>
                  SumSeq([k \in 1..(n + 1) |-> ChunkTextLen(k - 1, arg.chunks[k])])
                      > arg.context_max_chars

\* C7: with skip_rag no condensation, embedding, vector search or vision
\* probe is made; the first event is a sources event with an empty list and
\* the user turn sent to the generation backend is the raw question.
C7_SkipRag ==
    skip_rag =>
        /\ calls.condense = 0 /\ calls.embed = 0 /\ calls.search = 0
        /\ calls.vision = 0 /\ calls.image = 0
        /\ events # <<>> => events[1] = SourcesEvent(<<>>)
        /\ pc # "start" =>
              /\ events # <<>>
              /\ UserTurn = Message("user", Text("raw", "question", <<>>, 0), <<>>, FALSE)
        /\ calls.stream > 0 => Assembled

C7_Witness ==
    /\ skip_rag /\ pc = "end"
    /\ events[1] = SourcesEvent(<<>>)
    /\ events[Len(events)] = DoneEvent
    /\ calls.stream = 1

\* The caller's system prompt holds a character that is not whitespace
NonBlank(sp) == sp.some /\ \E i \in 1..Len(sp.s) : sp.s[i] # 0

MessagesShape ==
    Assembled =>
        LET w == Min(HISTORY_WINDOW, Len(history))
        IN  /\ Len(messages) = w + 2
            /\ messages[1].role = "system"
            /\ messages[1].text = IF NonBlank(system_prompt)
                                  THEN Text("system_prompt", "", system_prompt.s, 0)
                                  ELSE Text("RAG_SYSTEM_PROMPT", "", <<>>, 0)
            /\ \A k \in 1..w :
                  /\ messages[1 + k].role = history[Len(history) - w + k].role
                  /\ messages[1 + k].text.tag = "turn"
                  /\ messages[1 + k].text.body = <<history[Len(history) - w + k].content>>
            /\ UserTurn.role = "user"
            /\ UserTurn.text = prompt
            /\ prompt.tag \in {"raw", "context", "irrelevant", "nodocs"}
            /\ \A k \in 1..(w + 1) : messages[k].text.tag \notin {"raw", "context", "irrelevant", "nodocs"}

\* C8: the messages sent are one system message (the caller's instruction
\* when it is not blank, else the default), the last min(10, len(history))
\* turns of the history in their order, then the one constructed user turn;
\* the history is never changed.
C8_Messages == [](MessagesShape) /\ [][history' = history]_vars

C8_Witness ==
    /\ Assembled
    /\ Len(history) = HISTORY_WINDOW + 1
    /\ NonBlank(system_prompt)
    /\ Len(messages) = HISTORY_WINDOW + 2
    /\ messages[2].text.body = <<2>>

\* The image names carried by the first three relevant candidates
TopImages == UNION {Range(relevant_chunks[i].imgs) : i \in 1..Min(3, Len(relevant_chunks))}

\* C9: the user turn carries images only when the model supports vision and
\* relevant candidates carry images; then at most 3, pairwise distinct, all
\* carried by the first 3 relevant candidates; an image that does not load
\* is left out alone, and the run goes on to the generation call.
C9_Images ==
    (~skip_rag /\ Assembled) =>
        LET imgs == UserTurn.images
        IN  /\ imgs # <<>> => (supports_vision /\ TopImages # {})
            /\ UserTurn.multimodal <=> (supports_vision /\ TopImages # {})
            /\ Len(imgs) <= 3
            /\ \A i, j \in 1..Len(imgs) : i # j => imgs[i] # imgs[j]
            /\ Range(imgs) \subseteq TopImages \cap loadable
            /\ (supports_vision /\ Cardinality(TopImages) <= 3) =>
                  Range(imgs) = TopImages \cap loadable
            /\ (supports_vision /\ loadable = Images) =>
                  Len(imgs) = Min(3, Cardinality(TopImages))
            /\ pc \in {"open", "stream", "end"}
            /\ pc = "end" => calls.stream = 1
            /\ calls.stream = 0 => Count(events, "error") = 0

C9_Witness ==
    /\ ~skip_rag /\ pc = "end"
    /\ supports_vision
    /\ loadable = {2, 4}
    /\ Cardinality(TopImages) = 4
    /\ UserTurn.images = <<2>>
    /\ UserTurn.multimodal
    /\ events[Len(events)] = DoneEvent

\* ------------------------------------------------------------------------
\* Properties of the condenser
\* ------------------------------------------------------------------------
\* The run is past the condensation step of the retrieval path
PastCondense == ~skip_rag /\ pc # "start"

\* C26: the condenser calls the generation backend if and only if the
\* history is non-empty and the question is shorter than 80 characters or
\* contains a referential cue; in every other case the original question is
\* kept without any backend call; the query that is embedded is the
\* condenser's output.
C26_CondenseGate ==
    /\ [](/\ calls.condense <= 1
          /\ skip_rag => calls.condense = 0
          /\ PastCondense =>
                /\ calls.condense = 1 <=>
                      (history # <<>> /\ (question.len < 80 \/ question.cue))
                /\ calls.condense = 0 => search_question = "question")
    /\ [][pc # "start" => search_question' = search_question]_vars

\* A short follow-up without cue, asked after two turns, was rewritten and
\* its rewriting embedded
C26_Witness ==
    /\ history # <<>> /\ question.len < 80 /\ ~question.cue
    /\ calls.condense = 1 /\ calls.embed = 1
    /\ search_question = "condensed"

\* C27: the condenser returns the backend's rewritten text only when it is
\* non-empty and longer than 5 characters, else the original question; on a
\* backend failure it returns the original question, raises nothing, and the
\* orchestrator continues to the embedding step.
C27_CondenseFallback ==
    /\ [](PastCondense /\ calls.condense = 1 =>
            /\ search_question = "condensed" <=> (condense_reply.ok /\ condense_reply.len > 5)
            /\ search_question = "question" <=> ~(condense_reply.ok /\ condense_reply.len > 5))
    /\ [](pc = "embed" => outcome = "running" /\ events = <<>>)
    /\ [][pc = "start" /\ ~skip_rag => pc' = "embed"]_vars

\* The condensation request failed and the original question was embedded
C27_Witness ==
    /\ calls.condense = 1 /\ ~condense_reply.ok
    /\ search_question = "question"
    /\ calls.embed = 1 /\ pc = "search"

\* ------------------------------------------------------------------------
\* Part 6: the caches of the chat path (rag_service._vision_cache,
\* chat._models_cache)
\* ------------------------------------------------------------------------
\* Wall-clock instants around the expiry of the vision cache
VisionTimes ==
    {0, 1, _VISION_CACHE_TTL - 1, _VISION_CACHE_TTL, _VISION_CACHE_TTL + 1,
     2 * _VISION_CACHE_TTL - 1, 2 * _VISION_CACHE_TTL}

\* Wall-clock instants around the expiry of the models cache
ModelsTimes ==
    {0, 1, _MODELS_CACHE_TTL - 1, _MODELS_CACHE_TTL, _MODELS_CACHE_TTL + 1,
     2 * _MODELS_CACHE_TTL - 1, 2 * _MODELS_CACHE_TTL}

\* time.time() moves on to a later instant
Tick(times) ==
    /\ \E t \in times : t > now /\ now' = t
    /\ UNCHANGED <<ragInputs, index, loadable, model_vision, condense_reply, lines_left, received,
                   backend, _vision_cache, pc, ragLocals, events, calls, outcome, fnVars,
                   ingestVars, embedVars, collVars, cacheVars>>

\* A call of _check_vision_support for model m at the present instant: a
\* fresh entry answers; otherwise the backend is probed and the entry set
\* as the outcome of the probe tells
VisionCall(m) ==
    /\ Len(vision_log) < MaxCalls
    /\ model' = m
    /\ LET e == _vision_cache[m]
       IN  \/ /\ CacheFresh(e, now)
              /\ supports_vision' = e.supports
              /\ vision_log' = Append(vision_log,
                    [model |-> m, t |-> now, probed |-> FALSE, out |-> "none",
                     ret |-> e.supports, entry |-> e, after |-> e])
              /\ UNCHANGED <<_vision_cache, calls>>
           \/ /\ ~CacheFresh(e, now)
              /\ \E out \in {"ok", "status", "raise"} :
                    LET r == ProbeResult(e, now, out, model_vision)
                    IN  /\ supports_vision' = r.ret
                        /\ _vision_cache' = [_vision_cache EXCEPT ![m] = r.entry]
                        /\ vision_log' = Append(vision_log,
                              [model |-> m, t |-> now, probed |-> TRUE, out |-> out,
                               ret |-> r.ret, entry |-> e, after |-> r.entry])
              /\ calls' = Called("vision")
    /\ UNCHANGED <<question, history, system_prompt, skip_rag, context_max_chars, ragEnv,
                   lines_left, received, backend, pc, search_question, chunks, relevant_chunks, prompt,
                   messages, events, outcome, fnVars, ingestVars, embedVars, collVars,
                   _models_cache, loaded, models_log>>

VisionInit ==
    /\ RagInit({FALSE}, {History(0)}, {Question(79, FALSE)}, {None}, {0}, {"m1"}, {<<>>},
               {Images}, BOOLEAN, {0}, {0}, {EmptyCache})
    /\ FnIdle
    /\ IngestIdle
    /\ EmbedIdle
    /\ CollIdle
    /\ CacheIdle

VisionNext ==
    \/ Tick(VisionTimes)
    \/ \E m \in Models : VisionCall(m)

VisionSpec == VisionInit /\ [][VisionNext]_vars

\* A model name "base:tag"
Name(base, tag) == [base |-> base, tag |-> tag]

\* The models configured in the settings (OLLAMA_AVAILABLE_MODELS), three of
\* the five, two of them of one base name
Configured == <<Name("gemma3", "4b"), Name("llama3.1", "latest"), Name("gemma3", "12b")>>

\* What /api/tags may report as loaded
Reports ==
    {<<>>, <<Name("gemma3", "4b")>>, <<Name("gemma3", "27b")>>,
     <<Name("llama3.1", "latest"), Name("gemma3", "4b")>>, <<Name("mistral", "7b")>>}

\* m == a or m.split(":")[0] == a.split(":")[0]
Matches(m, a) == m = a \/ m.base = a.base

\* list_available_models: the configured models that match a loaded one, or
\* every configured model when the query fails (transport error, status
\* other than 2xx, unexpected body)
ListAvailable(ok) ==
    IF ok THEN SelectSeq(Configured, LAMBDA m : \E a \in Range(loaded) : Matches(m, a))
    ELSE Configured

NoModels == [present |-> FALSE, data |-> <<>>, ts |-> 0]

\* cached is not None and (now - _models_cache["ts"]) < _MODELS_CACHE_TTL
CacheValid(c, t) == c.present /\ (t - c.ts) < _MODELS_CACHE_TTL

\* Mutant of Remember: whatever was computed is cached
Remember_Always(models, t) == [present |-> TRUE, data |-> models, ts |-> t]

\* What the cache holds after models were computed at instant t
Remember(models, t) ==
    IF models # <<>> THEN [present |-> TRUE, data |-> models, ts |-> t] ELSE NoModels

\* A call of _get_available_models at the present instant
GetAvailableModels ==
    /\ Len(models_log) < MaxCalls
    /\ \/ /\ CacheValid(_models_cache, now)
          /\ models_log' = Append(models_log,
                [t |-> now, queried |-> FALSE, ret |-> _models_cache.data, ok |-> TRUE,
                 report |-> <<>>,
                 cached |-> _models_cache, after |-> _models_cache])
          /\ UNCHANGED _models_cache
       \/ /\ ~CacheValid(_models_cache, now)
          /\ \E ok \in BOOLEAN :
                LET models == ListAvailable(ok)
                IN  /\ _models_cache' = Remember(models, now)
                    /\ models_log' = Append(models_log,
                          [t |-> now, queried |-> TRUE, ret |-> models, ok |-> ok,
                           report |-> loaded,
                           cached |-> _models_cache, after |-> Remember(models, now)])
    /\ UNCHANGED <<ragVars, fnVars, ingestVars, embedVars, collVars, vision_log, loaded>>

\* The generation backend loads or unloads models (it restarts)
BackendReloads ==
    /\ \E l \in Reports : l # loaded /\ loaded' = l
    /\ UNCHANGED <<ragVars, fnVars, ingestVars, embedVars, collVars, vision_log,
                   _models_cache, models_log>>

ModelsInit ==
    /\ RagIdle
    /\ FnIdle
    /\ IngestIdle
    /\ EmbedIdle
    /\ CollIdle
    /\ vision_log = <<>>
    /\ _models_cache = NoModels
    /\ loaded \in Reports
    /\ models_log = <<>>

ModelsNext ==
    \/ Tick(ModelsTimes)
    \/ GetAvailableModels
    \/ BackendReloads

ModelsSpec == ModelsInit /\ [][ModelsNext]_vars

\* The calls i < j of the vision log that concern the same model
SameModel(i, j) == i < j /\ vision_log[i].model = vision_log[j].model

\* C28: after a vision probe for model M fails (non-success response or
\* transport exception), supports_vision(M) returns false and every further
\* supports_vision(M) call within the 300 s TTL returns false without
\* issuing another probe.
C28_FailedProbeCached ==
    \A i, j \in 1..Len(vision_log) :
        LET a == vision_log[i]
            b == vision_log[j]
        IN  /\ (a.probed /\ a.out \in {"status", "raise"}) => ~a.ret
            /\ (SameModel(i, j) /\ a.probed /\ a.out \in {"status", "raise"}
                    /\ b.t - a.t < _VISION_CACHE_TTL)
                  => (~b.probed /\ ~b.ret)

\* C29: a cache entry for model M answers without a probe only while its
\* age is below 300 s; once its age reaches 300 s the next call probes again
\* and replaces the entry; an entry recorded for one model is never used to
\* answer for another model.
C29_EntryExpires ==
    \A k \in 1..Len(vision_log) :
        LET c == vision_log[k]
            earlier == {j \in 1..(k - 1) : vision_log[j].model = c.model}
        IN  /\ ~c.probed =>
                  /\ c.entry.present /\ c.t - c.entry.ts < _VISION_CACHE_TTL
                  /\ c.ret = c.entry.supports
            /\ (c.entry.present /\ c.t - c.entry.ts >= _VISION_CACHE_TTL) =>
                  /\ c.probed
                  /\ c.after = Entry(c.ret, c.t)
            /\ c.entry = IF earlier = {} THEN NoEntry
                         ELSE vision_log[CHOOSE j \in earlier : \A i \in earlier : i <= j].after

\* C30: an empty model-availability result is never cached: whenever a
\* resolver call computes an empty list the cache is cleared, so the next
\* call, even within the 30 s TTL window, queries the backend again; a
\* non-empty result is served from the cache without a backend query until
\* 30 s have elapsed.
C30_EmptyNeverCached ==
    /\ ~(_models_cache.present /\ _models_cache.data = <<>>)
    /\ \A k \in 1..Len(models_log) :
          LET c == models_log[k]
          IN  /\ (c.queried /\ c.ret = <<>>) => c.after = NoModels
              /\ (c.queried /\ c.ret # <<>>) => c.after = [present |-> TRUE, data |-> c.ret, ts |-> c.t]
              /\ c.queried <=> ~(c.cached.present /\ c.t - c.cached.ts < 30)
              /\ ~c.queried => c.ret = c.cached.data /\ c.ret # <<>>
              /\ k > 1 => c.cached = models_log[k - 1].after
              /\ (k > 1 /\ models_log[k - 1].queried /\ models_log[k - 1].ret = <<>>) => c.queried

\* An empty result was followed, within the window, by a call that asked
\* the backend again and was itself followed by a call served from the cache
C30_Witness ==
    /\ Len(models_log) = 3
    /\ models_log[1].queried /\ models_log[1].ret = <<>>
    /\ models_log[2].queried /\ models_log[2].ret # <<>>
    /\ models_log[2].t - models_log[1].t < 30
    /\ ~models_log[3].queried
    /\ models_log[3].t - models_log[2].t = 29

\* C31: for every response of the generation backend to the model-list
\* query, the list the resolver computes is exactly the configured models,
\* in configured order, that match by full name or by base name a model the
\* backend reports as loaded; no model absent from the report is returned.
C31_OnlyReportedModels ==
    \A k \in 1..Len(models_log) :
        LET c == models_log[k]
        IN  c.queried =>
                /\ c.ret = SelectSeq(Configured,
                                     LAMBDA m : \E a \in Range(c.report) :
                                                    m = a \/ m.base = a.base)
                /\ \A m \in Range(c.ret) : m \in Range(c.report)

\* ------------------------------------------------------------------------
\* Part 7: the vector store adapter (qdrant_service.py) on drawn arguments
\* ------------------------------------------------------------------------
\* Everything but the function applied is at rest
PureIdle == IngestIdle /\ EmbedIdle /\ CollIdle /\ CacheIdle /\ RagIdle

\* Vectors of integer norm, the null vector among them; cosines and scores
\* are counted in 1/10000
Vectors == {<<0, 0>>, <<1, 0>>, <<0, 1>>, <<3, 4>>, <<4, 3>>}

UNIT == 10000

\* sum(x * y for x, y in zip(a, b)): zip stops at the shorter vector
RECURSIVE Dot(_, _)
Dot(a, b) == IF a = <<>> \/ b = <<>> THEN 0 ELSE Head(a) * Head(b) + Dot(Tail(a), Tail(b))

\* math.sqrt of a sum of squares
Sqrt(n) == CHOOSE r \in 0..n : r * r <= n /\ (r + 1) * (r + 1) > n

\* Mutant of _cosine_similarity: a zero norm counts as full similarity
CosineZeroIsOne(a, b) ==
    IF Sqrt(Dot(a, a)) = 0 \/ Sqrt(Dot(b, b)) = 0 THEN UNIT
    ELSE (Dot(a, b) * UNIT) \div (Sqrt(Dot(a, a)) * Sqrt(Dot(b, b)))

_cosine_similarity(a, b) ==
    IF Sqrt(Dot(a, a)) = 0 \/ Sqrt(Dot(b, b)) = 0 THEN 0
    ELSE (Dot(a, b) * UNIT) \div (Sqrt(Dot(a, a)) * Sqrt(Dot(b, b)))

\* max(f(x) for x in xs) over a non-empty sequence
MaxOf(xs) == CHOOSE v \in Range(xs) : \A w \in Range(xs) : w <= v

\* mmr_score(c), lambda_mmr counted in tenths
MmrScore(c, selected, lambda_mmr) ==
    LET max_sim == MaxOf([k \in 1..Len(selected) |->
                            _cosine_similarity(c.vector, selected[k].vector)])
    IN  lambda_mmr * c.score - (10 - lambda_mmr) * max_sim

\* Mutant of ArgMax: the last of the maximal elements
ArgMaxLast(keys) ==
    CHOOSE i \in 1..Len(keys) :
        /\ \A j \in 1..Len(keys) : keys[j] <= keys[i]
        /\ \A j \in (i + 1)..Len(keys) : keys[j] < keys[i]

\* max(remaining, key=...): the position of the first maximal element
ArgMax(keys) ==
    CHOOSE i \in 1..Len(keys) :
        /\ \A j \in 1..Len(keys) : keys[j] <= keys[i]
        /\ \A j \in 1..(i - 1) : keys[j] < keys[i]

\* Mutant of Remove: the list is left as it is
RemoveNothing(xs, x) == xs

\* list.remove(x): the list without its first element equal to x
Remove(xs, x) ==
    LET i == CHOOSE k \in 1..Len(xs) : xs[k] = x /\ \A j \in 1..(k - 1) : xs[j] # x
    IN  SubSeq(xs, 1, i - 1) \o SubSeq(xs, i + 1, Len(xs))

\* The while loop of _mmr_rerank
RECURSIVE MmrLoop(_, _, _, _)
MmrLoop(selected, remaining, top_k, lambda_mmr) ==
    IF ~(Len(selected) < top_k /\ remaining # <<>>) THEN selected
    ELSE LET keys == IF selected = <<>>
                     THEN [k \in 1..Len(remaining) |-> remaining[k].score]
                     ELSE [k \in 1..Len(remaining) |->
                             MmrScore(remaining[k], selected, lambda_mmr)]
             best == remaining[ArgMax(keys)]
         IN  MmrLoop(Append(selected, best), Remove(remaining, best), top_k, lambda_mmr)

\* list.sort(key=score, reverse=True): stable, by insertion
RECURSIVE SortByScore(_)
SortByScore(xs) ==
    IF xs = <<>> THEN <<>>
    ELSE LET rest == SortByScore(SubSeq(xs, 1, Len(xs) - 1))
             x == xs[Len(xs)]
             n == Cardinality({k \in 1..Len(rest) : rest[k].score >= x.score})
         IN  SubSeq(rest, 1, n) \o <<x>> \o SubSeq(rest, n + 1, Len(rest))

_mmr_rerank(candidates, query_embedding, top_k, lambda_mmr) ==
    IF candidates = <<>> THEN <<>>
    ELSE SortByScore(MmrLoop(<<>>, candidates, top_k, lambda_mmr))

\* Candidates as search_chunks hands them to the reranker
Candidates == [document_id : {1, 2}, score : {9000, 5000}, vector : {<<1, 0>>, <<3, 4>>, <<4, 3>>, <<0, 0>>}]

Lambdas == {0, MMR_LAMBDA, 10}

MmrInit ==
    /\ arg \in [candidates : SeqsUpTo(Candidates, MaxCands), top_k : 0..(MaxCands + 1),
                lambda_mmr : Lambdas]
    /\ res = <<>>
    /\ PureIdle

ApplyMmrRerank ==
    /\ res = <<>>
    /\ res' = <<_mmr_rerank(arg.candidates, <<1, 0>>, arg.top_k, arg.lambda_mmr)>>
    /\ UNCHANGED <<arg, ragVars, ingestVars, embedVars, collVars, cacheVars>>

MmrNext == ApplyMmrRerank

MmrSpec == MmrInit /\ [][MmrNext]_vars

\* The points of the collection as the store ranks them for one query:
\* by descending score
Stored == [document_id : {1, 2}, score : {9000, 5000, 3000}, vector : {<<1, 0>>, <<3, 4>>}]

Ranked(ps) == \A k \in 1..(Len(ps) - 1) : ps[k].score >= ps[k + 1].score

\* client.search: the ranked points that pass the filter and the threshold,
\* at most limit of them, the vector delivered only on request
ClientSearch(stored, request) ==
    LET Passes(p) ==
            /\ request.query_filter.some => p.document_id \in request.query_filter.s
            /\ request.score_threshold.some => p.score >= request.score_threshold.s
        hits == Take(SelectSeq(stored, Passes), request.limit)
    IN  [k \in 1..Len(hits) |->
            [payload |-> [document_id |-> hits[k].document_id], score |-> hits[k].score,
             vector |-> IF request.with_vectors THEN Some(hits[k].vector) ELSE None]]

\* Mutant of FetchK: never more than top_k
FetchKTopK(top_k, use_mmr) == top_k

\* fetch_k = max(top_k * 3, 20) if use_mmr else top_k
FetchK(top_k, use_mmr) ==
    IF use_mmr
    THEN Max(top_k * MMR_FETCH_FACTOR, MMR_FETCH_MIN)
    ELSE top_k

\* The request search_chunks sends
SearchRequest(top_k, document_ids, min_score, use_mmr) ==
    [query_filter |-> IF document_ids # {} THEN Some(document_ids) ELSE None,
     limit |-> FetchK(top_k, use_mmr),
     score_threshold |-> IF min_score > 0 THEN Some(min_score) ELSE None,
     with_vectors |-> use_mmr]

\* c.pop("vector", None)
PopVector(c) == [document_id |-> c.document_id, score |-> c.score]

search_chunks(stored, top_k, document_ids, min_score, use_mmr, mmr_lambda) ==
    LET request == SearchRequest(top_k, document_ids, min_score, use_mmr)
        found == ClientSearch(stored, request)
        candidates == [k \in 1..Len(found) |->
                         [document_id |-> found[k].payload.document_id,
                          score |-> found[k].score,
                          vector |-> IF use_mmr /\ found[k].vector.some
                                        /\ found[k].vector.s # <<>>
                                     THEN found[k].vector.s ELSE <<>>]]
        reranked == IF use_mmr /\ Len(candidates) > top_k
                    THEN _mmr_rerank(candidates, <<1, 0>>, top_k, mmr_lambda)
                    ELSE candidates
        popped == [k \in 1..Len(reranked) |-> PopVector(reranked[k])]
    IN  [request |-> request, ret |-> Take(popped, top_k)]

SearchInit ==
    /\ arg \in [stored : {p \in SeqsUpTo(Stored, MaxStored) : Ranked(p)},
                top_k : 0..MaxStored, document_ids : {{}, {1}},
                min_score : {0, 4000}, use_mmr : BOOLEAN, mmr_lambda : {MMR_LAMBDA, 10}]
    /\ res = <<>>
    /\ PureIdle

ApplySearchChunks ==
    /\ res = <<>>
    /\ res' = <<search_chunks(arg.stored, arg.top_k, arg.document_ids, arg.min_score,
                              arg.use_mmr, arg.mmr_lambda)>>
    /\ UNCHANGED <<arg, ragVars, ingestVars, embedVars, collVars, cacheVars>>

SearchNext == ApplySearchChunks

SearchSpec == SearchInit /\ [][SearchNext]_vars

\* The chunks of one document as _chunk_markdown builds them: chunk_index
\* is the position, from 0; a chunk without the key gets it from enumerate
ChunksOf(raw) ==
    [i \in 1..Len(raw) |->
        [content |-> raw[i].content, page |-> raw[i].page,
         chunk_index |-> IF raw[i].keyed THEN Some(i - 1) ELSE None]]

RawChunks == [content : {1, 2}, page : {1, 2}, keyed : BOOLEAN]

\* Mutant of Uuid4: the id is derived from the content of the chunk
Uuid4FromContent(issued, i, chunk) == chunk.content

\* str(uuid.uuid4()): an id never issued before, issued counting the ids
\* drawn so far
Uuid4(issued, i, chunk) == issued + i

\* One PointStruct of upsert_chunks, i counted from 1
PointStruct(issued, i, chunk, embedding, document_id) ==
    [id |-> Uuid4(issued, i, chunk),
     vector |-> embedding,
     payload |-> [document_id |-> document_id, page |-> chunk.page, content |-> chunk.content,
                  chunk_index |-> IF chunk.chunk_index.some THEN chunk.chunk_index.s ELSE i - 1]]

\* upsert_chunks: what it returns and the bulk writes it makes
upsert_chunks(chunk_list, embeddings, document_id, issued) ==
    LET n == Min(Len(chunk_list), Len(embeddings))
        pts == [i \in 1..n |-> PointStruct(issued, i, chunk_list[i], embeddings[i], document_id)]
    IN  [ret |-> Len(pts), upserts |-> IF pts # <<>> THEN <<pts>> ELSE <<>>]

UpsertInit ==
    /\ arg \in {a \in [raw : SeqsUpTo(RawChunks, MaxUpsert),
                       embeddings : SeqsUpTo({<<1, 0>>, <<3, 4>>}, MaxUpsert),
                       document_id : {"d1", "d2"}, issued : {0, 5}] :
                    Len(a.embeddings) \in {Len(a.raw), Len(a.raw) - 1}}
    /\ res = <<>>
    /\ PureIdle

ApplyUpsertChunks ==
    /\ res = <<>>
    /\ res' = <<upsert_chunks(ChunksOf(arg.raw), arg.embeddings, arg.document_id, arg.issued)>>
    /\ UNCHANGED <<arg, ragVars, ingestVars, embedVars, collVars, cacheVars>>

UpsertNext == ApplyUpsertChunks

UpsertSpec == UpsertInit /\ [][UpsertNext]_vars

\* ------------------------------------------------------------------------
\* Part 8: the chunker (_chunk_markdown), character by character
\* ------------------------------------------------------------------------
\* The characters of a markdown text: a letter, a space, a line break and
\* the heading sign
MdChars == {"a", " ", "\n", "#"}

IsSpace(c) == c \in {" ", "\n"}

\* str.strip() on a text of MdChars
RECURSIVE MdLStrip(_)
MdLStrip(s) == IF s # <<>> /\ IsSpace(Head(s)) THEN MdLStrip(Tail(s)) ELSE s

RECURSIVE MdRStrip(_)
MdRStrip(s) == IF s # <<>> /\ IsSpace(s[Len(s)]) THEN MdRStrip(SubSeq(s, 1, Len(s) - 1)) ELSE s

MdStrip(s) == MdRStrip(MdLStrip(s))

\* the first position from i on that holds a character of the set, or
\* Len(s) + 1
RECURSIVE Scan(_, _, _)
Scan(s, i, stop) == IF i > Len(s) \/ s[i] \in stop THEN i ELSE Scan(s, i + 1, stop)

\* ^(#{1,6}\s.+)$ with re.MULTILINE tried at position i: the last position
\* of the match, or 0. One to six #, one whitespace character (a line break
\* is one), then the rest of the line, which must not be empty.
HeadingEnd(s, i) ==
    LET j == Scan(s, i, {"a", " ", "\n"})
    IN  IF /\ i = 1 \/ (i > 1 /\ i <= Len(s) /\ s[i - 1] = "\n")
           /\ j - i \in 1..6
           /\ j <= Len(s) /\ IsSpace(s[j])
           /\ j + 1 <= Len(s) /\ s[j + 1] # "\n"
        THEN Scan(s, j + 1, {"\n"}) - 1
        ELSE 0

\* heading_re.split(markdown) from position pos on: the texts between the
\* headings and the headings themselves, in order
RECURSIVE HeadingSplit(_, _)
HeadingSplit(s, pos) ==
    LET starts == {i \in pos..Len(s) : HeadingEnd(s, i) > 0}
    IN  IF starts = {} THEN <<SubSeq(s, pos, Len(s))>>
        ELSE LET i == CHOOSE x \in starts : \A y \in starts : x <= y
                 e == HeadingEnd(s, i)
             IN  <<SubSeq(s, pos, i - 1), SubSeq(s, i, e)>> \o HeadingSplit(s, e + 1)

\* The loop over the parts: the contents of the sections, buffer being the
\* text collected since the last heading
RECURSIVE SectionsFrom(_, _, _)
SectionsFrom(parts, k, buffer) ==
    IF k > Len(parts)
    THEN (IF MdStrip(buffer) # <<>> THEN <<MdStrip(buffer)>> ELSE <<>>)
    ELSE LET part == MdStrip(parts[k])
         IN  IF part = <<>> THEN SectionsFrom(parts, k + 1, buffer)
             ELSE IF HeadingEnd(part, 1) > 0
             THEN (IF MdStrip(buffer) # <<>> THEN <<MdStrip(buffer)>> ELSE <<>>)
                      \o SectionsFrom(parts, k + 1, part \o <<"\n">>)
             ELSE SectionsFrom(parts, k + 1, buffer \o part \o <<"\n">>)

\* sections, with the whole text as the only section when there is none
Sections(markdown) ==
    LET found == SectionsFrom(HeadingSplit(markdown, 1), 1, <<>>)
    IN  IF found = <<>> THEN <<markdown>> ELSE found

\* text.split("\n\n")
RECURSIVE SplitParagraphs(_)
SplitParagraphs(s) ==
    LET cuts == {i \in 1..(Len(s) - 1) : s[i] = "\n" /\ s[i + 1] = "\n"}
    IN  IF cuts = {} THEN <<s>>
        ELSE LET i == CHOOSE x \in cuts : \A y \in cuts : x <= y
             IN  <<SubSeq(s, 1, i - 1)>> \o SplitParagraphs(SubSeq(s, i + 2, Len(s)))

\* [p.strip() for p in text.split("\n\n") if p.strip()]
Paragraphs(text) ==
    LET ps == SplitParagraphs(text)
        kept == SelectSeq(ps, LAMBDA q : MdStrip(q) # <<>>)
    IN  [k \in 1..Len(kept) |-> MdStrip(kept[k])]

\* text.strip()[-overlap:] if len(text.strip()) > overlap else text.strip();
\* s[-0:] is the whole of s
ChunkTail(text, overlap) ==
    LET t == MdStrip(text)
    IN  IF Len(t) > overlap /\ overlap > 0 THEN LastN(t, overlap) ELSE t

\* _add_chunk: the chunks with one more, whose content is the text behind
\* the tail of the chunk before. The field text keeps the text before the
\* tail is prepended; the record of the code has no such field.
AddChunk(done, text, page, overlap) ==
    LET last_chunk_tail == IF done = <<>> THEN <<>>
                           ELSE ChunkTail(done[Len(done)].text, overlap)
        prefixed == IF last_chunk_tail # <<>>
                    THEN MdStrip(last_chunk_tail \o <<"\n", "\n">> \o text)
                    ELSE MdStrip(text)
    IN  Append(done, [page |-> page, content |-> prefixed, chunk_index |-> Len(done),
                        text |-> text])

\* The loop over the paragraphs of a section longer than max_chars
RECURSIVE PackParagraphs(_, _, _, _, _, _, _)
PackParagraphs(done, paras, k, buf, page, max_chars, overlap) ==
    IF k > Len(paras)
    THEN (IF MdStrip(buf) # <<>> THEN AddChunk(done, MdStrip(buf), page, overlap) ELSE done)
    ELSE IF buf # <<>> /\ Len(buf) + Len(paras[k]) + 2 > max_chars
    THEN PackParagraphs(AddChunk(done, MdStrip(buf), page, overlap), paras, k + 1,
                        paras[k] \o <<"\n", "\n">>, page, max_chars, overlap)
    ELSE PackParagraphs(done, paras, k + 1, buf \o paras[k] \o <<"\n", "\n">>, page,
                        max_chars, overlap)

\* The loop over the sections
RECURSIVE ChunkSections(_, _, _, _, _)
ChunkSections(done, sections, i, max_chars, overlap) ==
    IF i > Len(sections) THEN done
    ELSE LET text == sections[i]
             next == IF Len(text) <= max_chars THEN AddChunk(done, text, i, overlap)
                     ELSE PackParagraphs(done, Paragraphs(text), 1, <<>>, i, max_chars, overlap)
         IN  ChunkSections(next, sections, i + 1, max_chars, overlap)

\* "(vide)"
PLACEHOLDER == <<"(vide)">>

_chunk_markdown(markdown, max_chars, overlap) ==
    LET done == ChunkSections(<<>>, Sections(markdown), 1, max_chars, overlap)
    IN  IF done # <<>> THEN done
        ELSE <<[page |-> 1, content |-> PLACEHOLDER, chunk_index |-> 0, text |-> PLACEHOLDER]>>

ChunkInit ==
    /\ arg \in [markdown : SeqsUpTo(MdChars, MaxMd), max_chars : {3, 6}, overlap : {0, 1}]
    /\ res = <<>>
    /\ PureIdle

ApplyChunkMarkdown ==
    /\ res = <<>>
    /\ res' = <<_chunk_markdown(arg.markdown, arg.max_chars, arg.overlap)>>
    /\ UNCHANGED <<arg, ragVars, ingestVars, embedVars, collVars, cacheVars>>

ChunkNext == ApplyChunkMarkdown

ChunkSpec == ChunkInit /\ [][ChunkNext]_vars

\* ------------------------------------------------------------------------
\* Properties of the reranker
\* ------------------------------------------------------------------------
\* the function of the specification has been applied
Applied == res # <<>>

\* how many times x occurs in xs
Occurrences(xs, x) == Cardinality({k \in 1..Len(xs) : xs[k] = x})

\* C23: _mmr_rerank returns exactly min(top_k, len(candidates)) items, each
\* of them an element of the input, and no input candidate twice.
C23_RerankSize ==
    Applied =>
        LET out == res[1]
            n == Len(arg.candidates)
        IN  /\ Len(out) = IF arg.top_k < n THEN arg.top_k ELSE n
            /\ \A k \in 1..Len(out) :
                   /\ out[k] \in Range(arg.candidates)
                   /\ Occurrences(out, out[k]) <= Occurrences(arg.candidates, out[k])

C23_Witness ==
    /\ Applied
    /\ Len(arg.candidates) = 3
    /\ arg.top_k = 2
    /\ arg.candidates[1] = arg.candidates[2]
    /\ Len(res[1]) = 2

\* the position of candidate i in the list sorted by descending relevance,
\* equal scores in the order of the input
RankOf(cands, i) ==
    1 + Cardinality({j \in 1..Len(cands) :
                        \/ cands[j].score > cands[i].score
                        \/ cands[j].score = cands[i].score /\ j < i})

ByRelevance(cands) ==
    [r \in 1..Len(cands) |-> cands[CHOOSE i \in 1..Len(cands) : RankOf(cands, i) = r]]

\* C24: with lambda_mmr = 1.0 the result is the first top_k elements of the
\* candidate list sorted by relevance descending, equal scores included.
C24_LambdaOneIsRelevanceOrder ==
    (Applied /\ arg.lambda_mmr = 10) =>
        LET sorted == ByRelevance(arg.candidates)
            n == IF arg.top_k < Len(sorted) THEN arg.top_k ELSE Len(sorted)
        IN  res[1] = SubSeq(sorted, 1, n)

C24_Witness ==
    /\ Applied
    /\ arg.lambda_mmr = 10
    /\ Len(arg.candidates) = 3
    /\ arg.top_k = 2
    /\ arg.candidates[1].score < arg.candidates[2].score
    /\ arg.candidates[2].score = arg.candidates[3].score
    /\ arg.candidates[2] # arg.candidates[3]
    /\ res[1] = <<arg.candidates[2], arg.candidates[3]>>

\* C25: the selection is greedy: the first pick is the candidate of highest
\* relevance, every later pick maximises lambda * relevance - (1 - lambda) *
\* (highest cosine to the ones selected), a zero-norm vector having cosine
\* 0 with everything; the output is sorted by descending relevance, so its
\* first element is the candidate of highest relevance.
C25_GreedySelection ==
    /\ \A v \in Vectors : _cosine_similarity(<<0, 0>>, v) = 0 /\ _cosine_similarity(v, <<0, 0>>) = 0
    /\ (Applied /\ arg.top_k >= 1 /\ arg.candidates # <<>>) =>
        LET out == res[1]
            cands == arg.candidates
            first == cands[CHOOSE i \in 1..Len(cands) : RankOf(cands, i) = 1]
        IN  /\ out[1] = first
            /\ \A k \in 1..(Len(out) - 1) : out[k].score >= out[k + 1].score
            /\ (arg.top_k = 2 /\ Len(cands) >= 2) =>
                   \E second \in Range(out) :
                       /\ out \in {<<first, second>>, <<second, first>>}
                       /\ \A c \in Range(cands) :
                              (c \notin {first, second}) =>
                                  MmrScore(c, <<first>>, arg.lambda_mmr)
                                      <= MmrScore(second, <<first>>, arg.lambda_mmr)

\* the second pick is not the second by relevance: diversity decided
C25_Witness ==
    /\ Applied
    /\ arg.top_k = 2
    /\ Len(arg.candidates) = 3
    /\ arg.lambda_mmr = MMR_LAMBDA
    /\ res[1] # SubSeq(ByRelevance(arg.candidates), 1, 2)
    /\ res[1][1] = ByRelevance(arg.candidates)[1]
    /\ \E c \in Range(arg.candidates) : c.vector = <<0, 0>>

\* ------------------------------------------------------------------------
\* Properties of the search
\* ------------------------------------------------------------------------
\* C22: search_chunks returns at most top_k chunks, sorted by descending
\* score, none carrying a vector; with diversity on it asks the store for
\* max(top_k * 3, 20) points with their vectors, otherwise for top_k points
\* without; the score threshold is passed only when min_score > 0.
C22_SearchContract ==
    Applied =>
        LET out == res[1].ret
            request == res[1].request
        IN  /\ Len(out) <= arg.top_k
            /\ \A k \in 1..(Len(out) - 1) : out[k].score >= out[k + 1].score
            /\ \A k \in 1..Len(out) :
                   /\ "vector" \notin DOMAIN out[k]
                   /\ \E p \in Range(arg.stored) :
                          /\ p.document_id = out[k].document_id /\ p.score = out[k].score
                          /\ arg.min_score > 0 => p.score >= arg.min_score
            /\ arg.use_mmr =>
                   /\ request.limit >= arg.top_k * 3 /\ request.limit >= 20
                   /\ request.limit \in {arg.top_k * 3, 20}
                   /\ request.with_vectors
            /\ ~arg.use_mmr => request.limit = arg.top_k /\ ~request.with_vectors
            /\ request.score_threshold = IF arg.min_score > 0 THEN Some(arg.min_score) ELSE None

\* diversity on, more candidates than top_k, a threshold that cuts one off
C22_Witness ==
    /\ Applied
    /\ arg.use_mmr
    /\ arg.top_k = 1
    /\ arg.min_score > 0
    /\ Len(arg.stored) = 3
    /\ arg.stored[3].score < arg.min_score
    /\ arg.stored[2].score > arg.min_score
    /\ arg.document_ids = {}
    /\ res[1].request.limit = 20
    /\ Len(res[1].ret) = 1

\* ------------------------------------------------------------------------
\* Properties of the upsert
\* ------------------------------------------------------------------------
\* C21: upsert_chunks of n chunks with n embeddings for document d writes
\* exactly n points, in one bulk call, and returns n; the ids of the points
\* are pairwise distinct, every point carries document_id = d, and point i
\* carries the payload of chunk i with embedding i, so that the chunk_index
\* values are 0, 1, 2, ...  (Of no chunk at all nothing is written.)
C21_UpsertWritesEveryChunk ==
    (Applied /\ Len(arg.embeddings) = Len(arg.raw)) =>
        LET n == Len(arg.raw)
            upserts == res[1].upserts
        IN  /\ res[1].ret = n
            /\ Len(upserts) = IF n = 0 THEN 0 ELSE 1
            /\ \A u \in 1..Len(upserts) :
                   /\ Len(upserts[u]) = n
                   /\ \A i, j \in 1..n : i # j => upserts[u][i].id # upserts[u][j].id
                   /\ \A i \in 1..n :
                          /\ upserts[u][i].payload.document_id = arg.document_id
                          /\ upserts[u][i].payload.content = arg.raw[i].content
                          /\ upserts[u][i].payload.page = arg.raw[i].page
                          /\ upserts[u][i].payload.chunk_index = i - 1
                          /\ upserts[u][i].vector = arg.embeddings[i]

\* three chunks of equal content, three points
C21_Witness ==
    /\ Applied
    /\ Len(arg.raw) = 3
    /\ Len(arg.embeddings) = 3
    /\ arg.raw[1].content = arg.raw[2].content
    /\ arg.embeddings[1] # arg.embeddings[2]
    /\ Len(res[1].upserts) = 1
    /\ [i \in 1..3 |-> res[1].upserts[1][i].payload.chunk_index] = <<0, 1, 2>>

\* ------------------------------------------------------------------------
\* Properties of the chunker
\* ------------------------------------------------------------------------
\* C32: for every input text the chunker returns a non-empty sequence of
\* chunks, none of them of empty content; for an empty or whitespace-only
\* input it returns exactly one chunk, whose content is the placeholder.
C32_NeverEmpty ==
    Applied =>
        /\ res[1] # <<>>
        /\ \A k \in 1..Len(res[1]) : res[1][k].content # <<>>
        /\ MdStrip(arg.markdown) = <<>> =>
               Len(res[1]) = 1 /\ res[1][1].content = PLACEHOLDER

\* C33: for every input, max_chars and overlap, the text of each chunk
\* before the overlap is prepended is no longer than max_chars, and so its
\* content no longer than max_chars plus the overlap and the two line
\* breaks that join them; sections of one long paragraph included.
C33_ChunkLength ==
    Applied =>
        \A k \in 1..Len(res[1]) :
            /\ Len(res[1][k].text) <= arg.max_chars
            /\ Len(res[1][k].content) <= arg.max_chars + arg.overlap + 2

\* ------------------------------------------------------------------------
\* Properties of the ingestion gate and of the document record
\* ------------------------------------------------------------------------
\* C34 as stated: the gate is released on every exit path of a conversion,
\* so a waiting ingestion always eventually acquires it.
C34_WaiterAcquires == \A d \in Docs : (ipc[d] = "wait_sem") ~> (ipc[d] = "converting")

\* C34 as amended: the gate is released on every exit path (success,
\* exception of the converter, cancellation by the ceiling): it is held only
\* by tasks inside their conversion, it is free when none is, and a waiting
\* ingestion eventually acquires it unless its own ceiling ends it first.
C34_GateReleased ==
    /\ [](/\ \A d \in GateHolders : ipc[d] \in {"converting", "wait_sem"}
          /\ sem_value = 1 - Cardinality(GateHolders)
          /\ \A i \in 1..Len(sem_waiters) : ipc[sem_waiters[i]] = "wait_sem")
    /\ \A d \in Docs : (ipc[d] = "wait_sem") ~> (ipc[d] = "converting" \/ d \in cancelled)

\* A waiter holds the gate after the ceiling ended the holder before it,
\* whose worker thread is still running
C34_Witness ==
    \E d, e \in Docs :
        /\ d # e
        /\ e \in cancelled /\ e \in threads
        /\ ipc[d] = "converting"
        /\ sem_value = 0

\* C35: every point of the vector index belongs to an existing document:
\* once delete_document(d) has completed and the ingestion task of d has
\* finished, the index holds no point of d, on every interleaving of the
\* deletion with a still running ingestion of d.
C35_NoOrphanPoints ==
    \A d \in Docs : (dpc[d] = "done" /\ status[d] = "deleted" /\ ipc[d] = "done") => points[d] = 0

\* C40: the status of a document record only moves from processing to ready
\* or from processing to error, both final, on every interleaving of the
\* completion, the failure and the timeout of the pipeline; and whenever the
\* status is ready, chunk_count is the number of points written to the
\* index for the document and progress is 100.
C40_StatusFinal ==
    /\ [][\A d \in Docs :
            status'[d] # status[d] =>
                status[d] = "processing" /\ status'[d] \in {"ready", "error"}]_vars
    /\ [](\A d \in Docs :
            status[d] = "ready" => chunk_count[d] = points[d] /\ progress[d] = 100)

\* ------------------------------------------------------------------------
\* The caller of a chat run (routers/chat.py: event_generator)
\* ------------------------------------------------------------------------
\* full_response after the events evs: the payloads of the token events
RECURSIVE FullResponse(_)
FullResponse(evs) ==
    IF evs = <<>> THEN <<>>
    ELSE LET e == evs[Len(evs)]
             before == FullResponse(SubSeq(evs, 1, Len(evs) - 1))
         IN  IF e.type = "token" THEN Append(before, e.token) ELSE before

\* Mutant of AssistantMessages: every done event stores a message
AssistantMessagesOnAnyDone(evs) ==
    LET stored == {k \in 1..Len(evs) : evs[k].type = "done"}
    IN  [i \in 1..Cardinality(stored) |-> [role |-> "assistant", content |-> FullResponse(evs)]]

\* The assistant messages the caller has committed after the events evs: one
\* for every done event that finds full_response non-empty, holding
\* "".join(full_response)
RECURSIVE AssistantMessages(_)
AssistantMessages(evs) ==
    IF evs = <<>> THEN <<>>
    ELSE LET e == evs[Len(evs)]
             before == SubSeq(evs, 1, Len(evs) - 1)
         IN  IF e.type = "done" /\ FullResponse(before) # <<>>
             THEN Append(AssistantMessages(before),
                         [role |-> "assistant", content |-> FullResponse(before)])
             ELSE AssistantMessages(before)

\* The payloads of the token events, in the order of emission
TokensOf(evs) == LET ts == SelectSeq(evs, LAMBDA e : e.type = "token") IN [k \in 1..Len(ts) |-> ts[k].token]

\* C36: for each chat request the caller persists at most one assistant
\* message, and only when a done event was received after at least one
\* token event; its content is the concatenation of all token payloads in
\* the order of emission; when the run ends with error no assistant message
\* is persisted; the orchestrator itself writes nothing to durable storage
\* (document records, index points, collection).
C36_OneAssistantMessage ==
    /\ [](LET stored == AssistantMessages(events)
          IN  /\ Len(stored) <= 1
              /\ stored # <<>> <=>
                     \E k \in 1..Len(events) :
                         events[k].type = "done" /\ \E j \in 1..(k - 1) : events[j].type = "token"
              /\ stored # <<>> => stored[1].content = TokensOf(events)
              /\ (\E k \in 1..Len(events) : events[k].type = "error") => stored = <<>>)
    /\ [][<<status, chunk_count, points, collection>>' = <<status, chunk_count, points, collection>>]_vars

\* A run of two tokens and done, and the message stored
C36_Witness ==
    /\ outcome # "running"
    /\ Len(TokensOf(events)) = 2
    /\ events[Len(events)].type = "done"
    /\ Len(AssistantMessages(events)) = 1

\* ------------------------------------------------------------------------
\* Properties of the reading of the stream
\* ------------------------------------------------------------------------
\* The lines that are not a partial result of the chat protocol: not JSON,
\* or JSON that is not an object
MalformedLines == {"malformed", "nondict"}

\* The incremental texts of the well-formed lines read
TextsOf(lines) == LET ts == SelectSeq(lines, LAMBDA l : l.kind = "token") IN [k \in 1..Len(ts) |-> ts[k].text]

\* C37: the lines the backend sends are processed in order: a malformed
\* line produces no event and does not end the stream, a well-formed line
\* with non-empty incremental text produces exactly one token event
\* carrying that text, and the first line signalling completion produces
\* done and stops the reading; hence the token payloads together are the
\* incremental texts of the well-formed lines received before the
\* completion marker.
C37_LinesInOrder ==
    /\ [][received' # received =>
            LET line == received'[Len(received')]
            IN  /\ received' = Append(received, line)
                /\ line.kind \in MalformedLines \cup {"empty", "notoken"} =>
                       events' = events /\ pc' = "stream"
                /\ line.kind = "token" =>
                       events' = Append(events, TokenEvent(line.text)) /\ pc' = "stream"
                /\ line.kind = "done" =>
                       events' = Append(events, DoneEvent) /\ pc' = "end"]_vars
    /\ [](/\ TokensOf(events) = TextsOf(received)
          /\ \A k \in 1..(Len(received) - 1) : received[k].kind # "done")

\* ------------------------------------------------------------------------
\* Startup retries and calls per chat request (main.py, rag_service.py)
\* ------------------------------------------------------------------------
\* The waits of the lifespan's backoff, in seconds
BACKOFF == <<2, 4, 8, 16>>

\* The lifespan has stopped at a successful attempt, or after the last one
StartupBounded ==
    /\ attempt \in 1..STARTUP_ATTEMPTS
    /\ slept = Take(BACKOFF, attempt - 1)
    /\ _collection_ready => Serving
    /\ Serving => _collection_ready \/ attempt = STARTUP_ATTEMPTS

\* Once the application serves, no step makes another attempt
NoAttemptWhileServing ==
    Serving => Serving' /\ attempt' = attempt /\ slept' = slept /\ dim' = dim

C39_PromptKeepsQuestion ==
    /\ [](~skip_rag /\ Assembled =>
            /\ UserTurn.text.q = question.id
            /\ \A k \in 1..Len(messages) : messages[k].text.q # "condensed")
    /\ [][question' = question /\ (pc \notin {"start"} => search_question' = search_question)]_vars

\* The question was rewritten, its rewriting embedded and searched, and the
\* prompt built around the original
C39_Witness ==
    /\ ~skip_rag /\ Assembled
    /\ search_question = "condensed"
    /\ calls.embed = 1 /\ calls.search = 1
    /\ prompt.tag = "context"
    /\ UserTurn.text.q = "question"

====
